---- MODULE Spec2Model ----
(***************************************************************************)
(* A model of the keyword pipeline: the batch orchestrator                 *)
(* (main.py, AssistantIntegration.process_batch), the chunk splitter       *)
(* (split_input_excel.py) and the bulk upload engine                       *)
(* (push_merged_items.py).  Each stage is a script of its own; a run of    *)
(* one stage is one specification (SpecBatch, SpecSplit, SpecPush), in     *)
(* which the variables of the other stages stay idle.                      *)
(***************************************************************************)
EXTENDS Integers, Sequences, FiniteSets, TLC

\* ------------------------------------------------------------------ bounds
MaxFiles == 3
MaxWorkers == 3
MaxRows == 4
MaxChunkSize == 3
MaxPushRows == 3
MaxBatchSize == 2
MaxRetries == 2
MaxUploads == 2
MaxGenerated == 2
MaxWait == 4
MaxTools == 2
MaxRequestFiles == 2
MaxChars == 12
MaxSegments == 3
MaxHeaders == 3
MaxMergeFiles == 2
MaxMergeRows == 1
MaxSplitRuns == 2

VARIABLES
    \* ---- process_batch (main.py)
    bpc,              \* position of the main thread in process_batch
    folder,           \* names of the files in input_folder
    BATCH_WORKERS,    \* config.BATCH_WORKERS
    excel_files,      \* the globbed file list (paths)
    job,              \* per index of excel_files: the state of its _process_one call
    ordered_results,  \* the pre-sized slot list of the pool branch
    results,          \* the list process_batch returns
    batch_use_conversation,  \* the use_conversation argument of process_batch
    job_conversation  \* per job: the conversation_id submitted, the one used

VARIABLES
    \* ---- split_excel_into_chunks (split_input_excel.py)
    spc,              \* position in split_excel_into_chunks
    split_input,      \* the input Excel file: whether it exists, and its data rows
    chunk_size,       \* the chunk_size argument
    df,               \* the DataFrame read from the input file (its rows)
    num_chunks,       \* the computed number of chunks
    split_i,          \* the loop variable i (0-based)
    out_dir,          \* the output directory: file name -> rows of that file
    created,          \* the names written by this run, in the order written
    split_error,      \* the SystemExit message, when the run failed
    earlier_runs      \* the runs made into this output directory before this one

VARIABLES
    \* ---- push_items_from_excel (push_merged_items.py)
    ppc,              \* position in push_items_from_excel
    push_file,        \* the Excel file at excel_path
    args,             \* the keyword arguments of the call
    total_rows,       \* len(df)
    out,              \* the cleaned three-column frame
    rows,             \* the records to send
    dropped,          \* total_rows - len(to_send)
    batch_idx,        \* idx of the batch the loop is at (0 before the first)
    attempt,          \* PUT attempts made for that batch
    wire,             \* what the last PUT attempt met on the wire
    dispatched,       \* the batches put on the wire so far, in order
    batches_sent,
    received_total,
    inserted_total,
    push_error,       \* the SystemExit message, when the run failed
    push_result,      \* the UploadResult returned, as a list of at most one
    msg,              \* the message built for the batch that failed last
    acked             \* the API's side: idx of the batches a PUT of which it
                      \* answered with a status below 400

batchVars == <<bpc, folder, BATCH_WORKERS, excel_files, job, ordered_results, results,
               batch_use_conversation, job_conversation>>
splitVars == <<spc, split_input, chunk_size, df, num_chunks, split_i, out_dir,
               created, split_error, earlier_runs>>

VARIABLES
    \* ---- the entry point of a stage script (its main / __main__ block)
    mpc,              \* position in the entry point
    stage,            \* the script that runs
    work,             \* how the stage's own work ends in this run
    webhook_url,      \* whether GOOGLE_CHAT_WEBHOOK_URL is set
    chat_calls,       \* the calls of send_chat_message so far, in order
    pending,          \* the exception the entry point is handling
    exit_status       \* how the process ended

VARIABLES
    \* ---- OpenAIService.get_assistant_response (openai_service.py)
    gpc,              \* position in get_assistant_response
    tools,            \* the tools argument
    file_paths,       \* the file_paths argument
    use_conversation, \* the use_conversation argument
    conversation_id,  \* the conversation_id argument (0 is None)
    conv_id,          \* conversation_id, then the id of the conversation created
    generated,        \* the service's side: the files the response will cite
    file_ids,         \* the ids of the uploaded input files, in order
    api_calls,        \* the service's side: the requests it was sent, in order
                      \* (the status fetches of the polling apart)
    response,         \* the response object the call holds
    elapsed,          \* time.time() - start_time in _wait_for_response_ready
    dl_i,             \* generated files handled by the download loop
    downloaded_files, \* the list of downloaded files
    del_i,            \* uploaded ids handled by the cleanup loop
    gerror,           \* the exception the call raised
    gresult,          \* the dictionary returned, as a list of at most one
    result            \* the dictionary process_request (main.py) makes of it,
                      \* as a list of at most one

VARIABLES
    \* ---- the request of one call: process_request's tool conversion (main.py),
    \* ---- build_input_from_message and create_response (openai_service.py)
    rpc,              \* position on the way to client.responses.create
    builtin_tools,    \* the builtin_tools list of the assistant configuration
    formatted_tools,  \* what process_request passes as tools
    message_content,  \* the enhanced user message, after clipping
    uploaded_ids,     \* the ids of the uploaded files, in upload order
    input_items,      \* what build_input_from_message returns
    request_data      \* the keyword arguments of client.responses.create, as a
                      \* list of at most one

VARIABLES
    \* ---- the background limiter of get_assistant_response (657-674)
    lpc,              \* position: before or after the limiter
    model,            \* the model argument
    env,              \* the OPENAI_*_TOKENS environment variables
    original_message, \* enhanced_user_message as it stood before the limiter
    enhanced_user_message  \* enhanced_user_message

VARIABLES
    \* ---- the download of one generated file (openai_service.py 702-721)
    opc,              \* position in the body of the download loop
    cited_file,       \* file_info: the file the response cites, its id and filename
    output_dir,       \* the output_dir argument
    output_path,      \* the path handed to download_file
    disk              \* the paths of the files written by download_file

VARIABLES
    \* ---- _build_column_map (push_merged_items.py, merge_assistant2_output.py)
    kpc,              \* position: before or after the call
    script,           \* the script whose _build_column_map is called
    existing,         \* list(columns): the headers of the sheet
    mapping           \* the dictionary returned, header -> canonical name

VARIABLES
    \* ---- merge_folder (merge_assistant2_output.py)
    mgpc,             \* position in merge_folder
    folder_exists,    \* folder.exists() and folder.is_dir()
    merge_files,     \* the sheets _iter_excel_files found, in order
    file_idx,         \* the number of sheets the loop has taken
    merged_frames,    \* the frames appended so far
    merged_of,        \* for each frame, the position of its sheet in excel_files
    skipped,          \* the sheets skipped, with the reason
    merged_df,        \* the dataset written to output_file
    merge_error       \* the reason of the exit, when the merge fails

VARIABLES
    \* ---- the downloads of the jobs of one batch run (main.py 242-249)
    job_pc,           \* per job: position in the body of the download loop
    job_cited,        \* per job: the file its response cites
    batch_output_dir, \* process_batch's output_dir argument
    job_output_path,  \* per job: output_path
    local_files,      \* the files on the local disk: path and the job whose content it holds
    written           \* the writes so far, in order

pushVars == <<ppc, push_file, args, total_rows, out, rows, dropped, batch_idx, attempt,
              wire, dispatched, batches_sent, received_total, inserted_total,
              push_error, push_result, msg, acked>>

stageVars == <<mpc, stage, work, webhook_url, chat_calls, pending, exit_status>>

gatewayVars == <<gpc, tools, file_paths, use_conversation, conversation_id, conv_id, generated, file_ids,
                 api_calls, response, elapsed, dl_i, downloaded_files, del_i,
                 gerror, gresult, result>>

requestVars == <<rpc, builtin_tools, formatted_tools, message_content, uploaded_ids,
                 input_items, request_data>>

limiterVars == <<lpc, model, env, original_message, enhanced_user_message>>
outputVars == <<opc, cited_file, output_dir, output_path, disk>>
columnMapVars == <<kpc, script, existing, mapping>>
mergeVars == <<mgpc, folder_exists, merge_files, file_idx, merged_frames, merged_of, skipped,
              merged_df, merge_error>>
downloadsVars == <<job_pc, job_cited, batch_output_dir, job_output_path, local_files, written>>

vars ==
    <<batchVars, splitVars, pushVars, stageVars, gatewayVars, requestVars,
      limiterVars, outputVars, columnMapVars, mergeVars, downloadsVars>>

\* what a stage leaves alone: the variables of the other stages
notBatch ==
    <<splitVars, pushVars, stageVars, gatewayVars, requestVars, limiterVars,
      outputVars, columnMapVars, mergeVars, downloadsVars>>
notSplit ==
    <<batchVars, pushVars, stageVars, gatewayVars, requestVars, limiterVars,
      outputVars, columnMapVars, mergeVars, downloadsVars>>
notPush ==
    <<batchVars, splitVars, stageVars, gatewayVars, requestVars, limiterVars,
      outputVars, columnMapVars, mergeVars, downloadsVars>>
notStage ==
    <<batchVars, splitVars, pushVars, gatewayVars, requestVars, limiterVars,
      outputVars, columnMapVars, mergeVars, downloadsVars>>
notGateway ==
    <<batchVars, splitVars, pushVars, stageVars, requestVars, limiterVars,
      outputVars, columnMapVars, mergeVars, downloadsVars>>
notRequest ==
    <<batchVars, splitVars, pushVars, stageVars, gatewayVars, limiterVars,
      outputVars, columnMapVars, mergeVars, downloadsVars>>
notLimiter ==
    <<batchVars, splitVars, pushVars, stageVars, gatewayVars, requestVars,
      outputVars, columnMapVars, mergeVars, downloadsVars>>
notOutput ==
    <<batchVars, splitVars, pushVars, stageVars, gatewayVars, requestVars,
      limiterVars, columnMapVars, mergeVars, downloadsVars>>
notColumnMap ==
    <<batchVars, splitVars, pushVars, stageVars, gatewayVars, requestVars,
      limiterVars, outputVars, mergeVars, downloadsVars>>
notMerge ==
    <<batchVars, splitVars, pushVars, stageVars, gatewayVars, requestVars,
      limiterVars, outputVars, columnMapVars, downloadsVars>>
notDownloads ==
    <<batchVars, splitVars, pushVars, stageVars, gatewayVars, requestVars,
      limiterVars, outputVars, columnMapVars, mergeVars>>

\* ----------------------------------------------------------------- helpers
Max(a, b) == IF a >= b THEN a ELSE b
Min(a, b) == IF a <= b THEN a ELSE b

RECURSIVE Perms(_)
\* every ordering of a finite set, as sequences
Perms(S) ==
    IF S = {} THEN {<<>>}
    ELSE UNION {{<<x>> \o p : p \in Perms(S \ {x})} : x \in S}

\* ------------------------------------------------- process_batch (main.py)
InputFolder == "input_folder"
None == [status |-> "None"]
NoValue == "-"

\* the files that may lie in the input folder: Excel chunks of both
\* extensions and one file that is no Excel file
ExcelName(k) == [stem |-> k, ext |-> IF k % 2 = 1 THEN "xlsx" ELSE "xls"]
OtherName == [stem |-> 0, ext |-> "txt"]

\* os.path.join(input_folder, name) and os.path.basename
JoinPath(dir, name) == [dir |-> dir, name |-> name]
Basename(path) == path.name

\* glob.glob(os.path.join(input_folder, pattern)): the names of the folder
\* with the pattern's extension, in any directory order
Glob(names, ext) ==
    Perms({JoinPath(InputFolder, n) : n \in {m \in names : m.ext = ext}})

\* excel_files: the '*.xlsx' matches followed by the '*.xls' matches
GlobExcelFiles(names) ==
    {a \o b : a \in Glob(names, "xlsx"), b \in Glob(names, "xls")}

\* workers = max(1, int(BATCH_WORKERS or 1))
Workers == Max(1, IF BATCH_WORKERS = 0 THEN 1 ELSE BATCH_WORKERS)

\* what one _process_one call may end in: a returned response, or an
\* exception carrying a message
ErrMsgs == {"rate limit", "timeout"}
Outcomes == {"returned"} \cup ErrMsgs

\* the response process_request returns for a request about file_path
Response(file_path) == <<"response", file_path>>

\* the dict _process_one returns
SuccessResult(file_path) ==
    [input_file |-> Basename(file_path), status |-> "success",
     response |-> Response(file_path), error |-> NoValue]

\* the dict the except clauses build
ErrorResult(file_path, e) ==
    [input_file |-> Basename(file_path), status |-> "error",
     response |-> NoValue, error |-> e]

\* try: result = _process_one(...)  except Exception as e: {...error...}
JobResult(file_path, outcome) ==
    IF outcome = "returned" THEN SuccessResult(file_path)
    ELSE ErrorResult(file_path, outcome)

\* ordered_results[i - 1] = res   (i is 1-based in the code)
StoreResultInCompletionOrder(ordered, i, res) ==
    LET free == {k \in 1..Len(ordered) : ordered[k] = None}
        k == CHOOSE m \in free : \A o \in free : m <= o
    IN  [ordered EXCEPT ![k] = res]

StoreResult(ordered, i, res) == [ordered EXCEPT ![i] = res]

\* a list comprehension that keeps the successes only
CompactResultsOfSuccesses(ordered) ==
    SelectSeq(ordered, LAMBDA r : r # None /\ r.status = "success")

\* results = [r for r in ordered_results if r is not None]
NotNone(r) == r # None
CompactResults(ordered) == SelectSeq(ordered, NotNone)

NFiles == Len(excel_files)
JobsIn(st) == {i \in 1..NFiles : job[i].st = st}
InFlight == JobsIn("running")

\* ThreadPoolExecutor(max_workers=workers): a queued work item is taken only
\* by a worker thread that is idle, and there are at most max_workers threads
PoolHasIdleWorkerUnbounded(running) == TRUE

PoolHasIdleWorker(running) == running < Workers

\* where the sequential loop goes after the except clause: on to the next file
SeqAfterExceptAbort == "summary"

SeqAfterExcept == "seq"


\* the conversation the job of the file before is in (0: none)
PreviousConversation(i) == IF i = 1 THEN 0 ELSE job_conversation[i - 1].used

\* _process_one, line 247: conversation_id=None, whatever conversation the
\* file before was sent in (0 is None)
ProcessOneConversationIdCarried(previous) == previous

ProcessOneConversationId(previous) == 0

\* client.conversations.create: the API hands out an id it has not handed
\* out before; the ids are opaque, and the one created for the request of
\* the i-th file is written i
FreshConversation(i) == i

\* get_assistant_response, "if use_conversation and not conv_id:"
\* (openai_service.py 645)
NeedsNewConversationWhenAsked(use, id) == use

NeedsNewConversation(use, id) == use /\ id = 0

\* the batch stage is not running
BatchIdle ==
    /\ bpc = "idle"
    /\ folder = {}
    /\ BATCH_WORKERS = 1
    /\ excel_files = <<>>
    /\ job = <<>>
    /\ ordered_results = <<>>
    /\ results = <<>>
    /\ batch_use_conversation = FALSE
    /\ job_conversation = <<>>

BatchInit ==
    /\ bpc = "glob"
    /\ \E n \in 0..MaxFiles : folder = {ExcelName(k) : k \in 1..n} \cup {OtherName}
    /\ BATCH_WORKERS \in (-1)..MaxWorkers
    /\ excel_files = <<>>
    /\ job = <<>>
    /\ ordered_results = <<>>
    /\ results = <<>>
    /\ batch_use_conversation \in BOOLEAN
    /\ job_conversation = <<>>

\* lines 212-226 and 257-272: glob the folder, return [] when nothing is
\* found, else enter the sequential loop or the pool
FindExcelFiles ==
    /\ bpc = "glob"
    /\ \E files \in GlobExcelFiles(folder) :
        /\ excel_files' = files
        /\ job' = [i \in 1..Len(files) |-> [st |-> "new", out |-> NoValue]]
        /\ IF files = <<>>
             THEN bpc' = "done" /\ ordered_results' = <<>>
             ELSE IF Workers = 1
               THEN bpc' = "seq" /\ ordered_results' = <<>>
               ELSE /\ bpc' = "submit"
                    /\ ordered_results' = [i \in 1..Len(files) |-> None]
        /\ job_conversation' = [i \in 1..Len(files) |-> [submitted |-> 0, used |-> 0]]
    /\ results' = <<>>
    /\ UNCHANGED <<folder, BATCH_WORKERS, batch_use_conversation>>
    /\ UNCHANGED notBatch

\* line 263: the sequential loop calls _process_one for the next file
SeqCall ==
    /\ bpc = "seq"
    /\ InFlight = {}
    /\ Len(results) < NFiles
    /\ job' = [job EXCEPT ![Len(results) + 1].st = "running"]
    /\ job_conversation' =
           [job_conversation EXCEPT ![Len(results) + 1] =
               [submitted |-> ProcessOneConversationId(PreviousConversation(Len(results) + 1)),
                used |-> ProcessOneConversationId(PreviousConversation(Len(results) + 1))]]
    /\ UNCHANGED <<bpc, folder, BATCH_WORKERS, excel_files, ordered_results, results,
                   batch_use_conversation>>
    /\ UNCHANGED notBatch

\* lines 262-268: the call returns or raises; the result is appended
SeqReturn ==
    /\ bpc = "seq"
    /\ \E i \in InFlight, outcome \in Outcomes :
        /\ outcome = "returned" =>
               ~NeedsNewConversation(batch_use_conversation, job_conversation[i].used)
        /\ job' = [job EXCEPT ![i] = [st |-> "collected", out |-> outcome]]
        /\ results' = Append(results, JobResult(excel_files[i], outcome))
        /\ bpc' = IF outcome = "returned" THEN "seq" ELSE SeqAfterExcept
    /\ UNCHANGED <<folder, BATCH_WORKERS, excel_files, ordered_results,
                   batch_use_conversation, job_conversation>>
    /\ UNCHANGED notBatch

\* the for loop is exhausted
SeqEnd ==
    /\ bpc = "seq"
    /\ InFlight = {}
    /\ Len(results) = NFiles
    /\ bpc' = "summary"
    /\ UNCHANGED <<folder, BATCH_WORKERS, excel_files, job, ordered_results, results,
                   batch_use_conversation, job_conversation>>
    /\ UNCHANGED notBatch

\* inside a running job, get_assistant_response creates the conversation of
\* its request (openai_service.py 643-646)
JobCreatesConversation ==
    /\ bpc \in {"seq", "submit", "as_completed"}
    /\ \E i \in InFlight :
        /\ NeedsNewConversation(batch_use_conversation, job_conversation[i].used)
        /\ job_conversation' = [job_conversation EXCEPT ![i].used = FreshConversation(i)]
    /\ UNCHANGED <<bpc, folder, BATCH_WORKERS, excel_files, job, ordered_results, results,
                   batch_use_conversation>>
    /\ UNCHANGED notBatch

\* lines 274-277: executor.submit, in the order of excel_files
PoolSubmit ==
    /\ bpc = "submit"
    /\ \E i \in JobsIn("new") :
        /\ \A j \in JobsIn("new") : i <= j
        /\ job' = [job EXCEPT ![i].st = "queued"]
        /\ bpc' = IF JobsIn("new") = {i} THEN "as_completed" ELSE "submit"
    /\ UNCHANGED <<folder, BATCH_WORKERS, excel_files, ordered_results, results,
                   batch_use_conversation, job_conversation>>
    /\ UNCHANGED notBatch

\* a worker thread takes the oldest queued work item and calls _process_one
WorkerStart ==
    /\ bpc \in {"submit", "as_completed"}
    /\ \E i \in JobsIn("queued") :
        /\ \A j \in JobsIn("queued") : i <= j
        /\ PoolHasIdleWorker(Cardinality(InFlight))
        /\ job' = [job EXCEPT ![i].st = "running"]
        /\ job_conversation' =
               [job_conversation EXCEPT ![i] =
                   [submitted |-> ProcessOneConversationId(PreviousConversation(i)),
                    used |-> ProcessOneConversationId(PreviousConversation(i))]]
    /\ UNCHANGED <<bpc, folder, BATCH_WORKERS, excel_files, ordered_results, results,
                   batch_use_conversation>>
    /\ UNCHANGED notBatch

\* the call of a worker returns or raises: its future completes
WorkerFinish ==
    /\ bpc \in {"submit", "as_completed"}
    /\ \E i \in InFlight, outcome \in Outcomes :
        /\ outcome = "returned" =>
               ~NeedsNewConversation(batch_use_conversation, job_conversation[i].used)
        /\ job' = [job EXCEPT ![i] = [st |-> "finished", out |-> outcome]]
    /\ UNCHANGED <<bpc, folder, BATCH_WORKERS, excel_files, ordered_results, results,
                   batch_use_conversation, job_conversation>>
    /\ UNCHANGED notBatch

\* lines 278-287: as_completed yields a completed future, in any order
Collect ==
    /\ bpc = "as_completed"
    /\ \E i \in JobsIn("finished") :
        /\ ordered_results' =
               StoreResult(ordered_results, i, JobResult(excel_files[i], job[i].out))
        /\ job' = [job EXCEPT ![i].st = "collected"]
    /\ UNCHANGED <<bpc, folder, BATCH_WORKERS, excel_files, results,
                   batch_use_conversation, job_conversation>>
    /\ UNCHANGED notBatch

\* line 289: every future was yielded; the slots are read out in order
PoolEnd ==
    /\ bpc = "as_completed"
    /\ JobsIn("collected") = 1..NFiles
    /\ results' = CompactResults(ordered_results)
    /\ bpc' = "summary"
    /\ UNCHANGED <<folder, BATCH_WORKERS, excel_files, job, ordered_results,
                   batch_use_conversation, job_conversation>>
    /\ UNCHANGED notBatch

\* lines 291-303: the summary is logged and results returned
BatchReturn ==
    /\ bpc = "summary"
    /\ bpc' = "done"
    /\ UNCHANGED <<folder, BATCH_WORKERS, excel_files, job, ordered_results, results,
                   batch_use_conversation, job_conversation>>
    /\ UNCHANGED notBatch

BatchNext ==
    \/ FindExcelFiles
    \/ SeqCall
    \/ SeqReturn
    \/ SeqEnd
    \/ JobCreatesConversation
    \/ PoolSubmit
    \/ WorkerStart
    \/ WorkerFinish
    \/ Collect
    \/ PoolEnd
    \/ BatchReturn

\* C1: process_batch returns one result per submitted file, the i-th being the
\* result of the i-th file of excel_files (its input_file is that file's name
\* and its response is the response to that file), whatever the worker count
\* and the completion order; a slot of the pool branch never holds the
\* result of another file.
C1_ResultsInFileOrder ==
    /\ \A i \in 1..Len(ordered_results) :
          ordered_results[i] # None =>
              /\ ordered_results[i].input_file = excel_files[i].name
              /\ ordered_results[i].status = "success" =>
                    ordered_results[i].response = <<"response", excel_files[i]>>
    /\ bpc = "done" =>
          /\ Len(results) = Len(excel_files)
          /\ \A i \in 1..Len(results) :
                /\ results[i].input_file = excel_files[i].name
                /\ results[i].status = "success" =>
                      results[i].response = <<"response", excel_files[i]>>

\* the pool wrote the last slot while the first is still empty
C1_Witness ==
    /\ bpc = "as_completed"
    /\ Workers > 1
    /\ NFiles >= 3
    /\ ordered_results[1] = None
    /\ ordered_results[NFiles] # None

\* C2: when the job of a file raises, the batch still returns; every file has
\* run and has its own entry: status error with the exception's message for
\* a job that raised, status success for a job that returned - in the
\* sequential loop and in the pool alike; the run never stops short of
\* returning.
C2_FailureIsolation ==
    /\ bpc = "done" =>
          /\ Len(results) = NFiles
          /\ \A i \in 1..NFiles :
                /\ job[i].st = "collected"
                /\ job[i].out = "returned" =>
                      results[i].status = "success" /\ results[i].error = NoValue
                /\ job[i].out \in ErrMsgs =>
                      results[i].status = "error" /\ results[i].error = job[i].out
    /\ bpc \notin {"done", "idle"} => ENABLED BatchNext

\* a batch returned in which an early job raised and later jobs succeeded
C2_Witness ==
    /\ bpc = "done"
    /\ NFiles >= 3
    /\ results[1].status = "error"
    /\ results[1].error = "timeout"
    /\ results[2].status = "success"
    /\ results[3].status = "success"

\* C3: at every moment at most W = max(1, BATCH_WORKERS) jobs are in flight;
\* with W = 1 a job is in flight only when every earlier job has finished and
\* been recorded.
C3_BoundedInFlight ==
    /\ Cardinality({i \in 1..NFiles : job[i].st = "running"}) <= Max(1, BATCH_WORKERS)
    /\ Max(1, BATCH_WORKERS) = 1 =>
          \A i \in 1..NFiles :
              job[i].st = "running" => \A j \in 1..(i - 1) : job[j].st = "collected"

\* the pool is full and a submitted job waits for a worker
C3_Witness ==
    /\ Max(1, BATCH_WORKERS) = 2
    /\ Cardinality(InFlight) = 2
    /\ JobsIn("queued") # {}

\* the result list that the file list and the outcomes of the jobs fix: the
\* dictionary of each file's outcome, in file order
ResultsOfOutcomes ==
    [i \in 1..NFiles |-> JobResult(excel_files[i], job[i].out)]

\* C39: the list process_batch returns is fixed by the file list and the
\* outcome of each file's job, a returned response or an exception: the same
\* list with one worker as with several, whatever the completion order; a
\* slot the pool has written holds what the sequential loop appends for
\* that file.
C39_SameResultsForAnyWorkers ==
    /\ \A i \in 1..Len(ordered_results) :
          ordered_results[i] # None =>
              ordered_results[i] = JobResult(excel_files[i], job[i].out)
    /\ bpc = "seq" =>
          results = SubSeq(ResultsOfOutcomes, 1, Len(results))
    /\ (bpc = "done" /\ NFiles > 0) => results = ResultsOfOutcomes

\* a pool of several workers returned the list of a first job that raised
\* and a second that returned
C39_Witness ==
    /\ bpc = "done"
    /\ Workers > 1
    /\ NFiles >= 2
    /\ job[1].out \in ErrMsgs
    /\ job[2].out = "returned"
    /\ results = ResultsOfOutcomes

\* ------------------------------ split_excel_into_chunks (split_input_excel.py)
RowValues == {"r1", "r2"}

RECURSIVE SeqsUpTo(_, _)
\* the sequences over S of length at most n
SeqsUpTo(S, n) ==
    IF n = 0 THEN {<<>>}
    ELSE LET shorter == SeqsUpTo(S, n - 1)
         IN  shorter \cup {Append(q, x) : q \in {r \in shorter : Len(r) = n - 1}, x \in S}

DigitChars == <<"0", "1", "2", "3", "4", "5", "6", "7", "8", "9">>

RECURSIVE Str(_)
\* str(n) of a natural number: its decimal digits
Str(n) ==
    IF n < 10 THEN <<DigitChars[n + 1]>>
    ELSE Append(Str(n \div 10), DigitChars[(n % 10) + 1])

RECURSIVE ZeroPad(_, _)
\* format spec 0{w}d: zeros on the left up to width w, never cut
ZeroPad(digits, w) ==
    IF Len(digits) >= w THEN digits ELSE ZeroPad(<<"0">> \o digits, w)

\* f"keywords_chunk_{i+1:03d}_rows_{start_idx+1}-{end_idx}.xlsx"
ChunkFileName(i, start_idx, end_idx) ==
    <<"keywords_chunk_">> \o ZeroPad(Str(i + 1), 3) \o <<"_rows_">>
        \o Str(start_idx + 1) \o <<"-">> \o Str(end_idx) \o <<".xlsx">>

\* num_chunks = (n_rows + chunk_size - 1) // chunk_size
NumChunksFloor(n_rows, size) == n_rows \div size

NumChunks(n_rows, size) == (n_rows + size - 1) \div size

\* start_idx = i * chunk_size ; end_idx = min((i + 1) * chunk_size, n_rows)
StartIdx(i, size) == i * size

EndIdx(i, size, n_rows) == Min((i + 1) * size, n_rows)

\* df.iloc[start:end]: positions start..end-1 (0-based), cut at the end of df
Iloc(rws, start, end) == SubSeq(rws, start + 1, Min(end, Len(rws)))

\* if n_rows == 0: raise SystemExit
SheetIsEmptyNever(n_rows) == FALSE

SheetIsEmpty(n_rows) == n_rows = 0

\* to_excel(filepath): the file is created, or replaced when it exists
WriteFile(dir, name, rws) ==
    [n \in DOMAIN dir \cup {name} |-> IF n = name THEN rws ELSE dir[n]]

EmptyDir == [n \in {} |-> <<>>]

SplitIdle ==
    /\ spc = "idle"
    /\ split_input = [exists |-> FALSE, rows |-> <<>>]
    /\ chunk_size = 1
    /\ df = <<>>
    /\ num_chunks = 0
    /\ split_i = 0
    /\ out_dir = EmptyDir
    /\ created = <<>>
    /\ split_error = NoValue
    /\ earlier_runs = 0

SplitInit ==
    /\ spc = "start"
    /\ \/ split_input = [exists |-> FALSE, rows |-> <<>>]
       \/ \E rws \in SeqsUpTo(RowValues, MaxRows) :
             split_input = [exists |-> TRUE, rows |-> rws]
    /\ chunk_size \in 1..MaxChunkSize
    /\ df = <<>>
    /\ num_chunks = 0
    /\ split_i = 0
    /\ out_dir = EmptyDir
    /\ created = <<>>
    /\ split_error = NoValue
    /\ earlier_runs = 0

\* lines 25-27: the input file does not exist
SplitInputMissing ==
    /\ spc = "start"
    /\ ~split_input.exists
    /\ spc' = "error"
    /\ split_error' = "Input Excel file not found"
    /\ UNCHANGED <<split_input, chunk_size, df, num_chunks, split_i, out_dir, created, earlier_runs>>
    /\ UNCHANGED notSplit

\* lines 37-46: read the sheet, fail when it has no rows, else count the chunks
SplitRead ==
    /\ spc = "start"
    /\ split_input.exists
    /\ df' = split_input.rows
    /\ IF SheetIsEmpty(Len(split_input.rows))
         THEN /\ spc' = "error"
              /\ split_error' = "Input Excel sheet is empty."
              /\ UNCHANGED num_chunks
         ELSE /\ spc' = "loop"
              /\ num_chunks' = NumChunks(Len(split_input.rows), chunk_size)
              /\ UNCHANGED split_error
    /\ UNCHANGED <<split_input, chunk_size, split_i, out_dir, created, earlier_runs>>
    /\ UNCHANGED notSplit

\* lines 53-61: one iteration of the loop writes chunk i
SplitWriteChunk ==
    /\ spc = "loop"
    /\ split_i < num_chunks
    /\ LET start_idx == StartIdx(split_i, chunk_size)
           end_idx == EndIdx(split_i, chunk_size, Len(df))
           filename == ChunkFileName(split_i, start_idx, end_idx)
       IN  /\ out_dir' = WriteFile(out_dir, filename, Iloc(df, start_idx, end_idx))
           /\ created' = Append(created, filename)
    /\ split_i' = split_i + 1
    /\ UNCHANGED <<spc, split_input, chunk_size, df, num_chunks, split_error, earlier_runs>>
    /\ UNCHANGED notSplit

\* lines 63-73: the loop is over; the output path is returned
SplitReturn ==
    /\ spc = "loop"
    /\ split_i >= num_chunks
    /\ spc' = "done"
    /\ UNCHANGED <<split_input, chunk_size, df, num_chunks, split_i, out_dir,
                   created, split_error, earlier_runs>>
    /\ UNCHANGED notSplit

SplitNext ==
    \/ SplitInputMissing
    \/ SplitRead
    \/ SplitWriteChunk
    \/ SplitReturn

\* the script is run again with the same --output-dir: what the runs before
\* wrote is still there (line 30: mkdir(parents=True, exist_ok=True))
SplitRunAgain ==
    /\ spc \in {"done", "error"}
    /\ earlier_runs + 1 < MaxSplitRuns
    /\ earlier_runs' = earlier_runs + 1
    /\ spc' = "start"
    /\ \/ split_input' = [exists |-> FALSE, rows |-> <<>>]
       \/ \E rws \in SeqsUpTo(RowValues, MaxRows) :
             split_input' = [exists |-> TRUE, rows |-> rws]
    /\ chunk_size' \in 1..MaxChunkSize
    /\ df' = <<>>
    /\ num_chunks' = 0
    /\ split_i' = 0
    /\ created' = <<>>
    /\ split_error' = NoValue
    /\ UNCHANGED out_dir
    /\ UNCHANGED notSplit

SplitRunsNext ==
    \/ SplitNext
    \/ SplitRunAgain

\* the least k with k * c >= n
CeilDiv(n, c) == CHOOSE k \in 0..n : k * c >= n /\ (k = 0 \/ (k - 1) * c < n)

RECURSIVE ConcatFiles(_, _)
\* the rows of the named files of dir, one file after the other
ConcatFiles(dir, names) ==
    IF names = <<>> THEN <<>>
    ELSE dir[Head(names)] \o ConcatFiles(dir, Tail(names))

\* C4: a split of N >= 1 rows with chunk size C >= 1 that returns has written
\* exactly ceil(N/C) files; the k-th holds source rows (k-1)*C+1 .. min(k*C, N)
\* in source order and is named by k and that row range; the files are
\* distinct and their concatenation in sequence order is the source.
C4_ChunksPartitionSource ==
    spc = "done" =>
        LET N == Len(split_input.rows)
            C == chunk_size
        IN  /\ Len(created) = CeilDiv(N, C)
            /\ DOMAIN out_dir = {created[k] : k \in 1..Len(created)}
            /\ Cardinality(DOMAIN out_dir) = Len(created)
            /\ \A k \in 1..Len(created) :
                  LET first == (k - 1) * C + 1
                      last == IF k * C <= N THEN k * C ELSE N
                  IN  /\ created[k] = <<"keywords_chunk_">> \o ZeroPad(Str(k), 3)
                                          \o <<"_rows_">> \o Str(first) \o <<"-">>
                                          \o Str(last) \o <<".xlsx">>
                      /\ out_dir[created[k]] = [j \in 1..(last - first + 1) |->
                                                   split_input.rows[first + j - 1]]
            /\ ConcatFiles(out_dir, created) = split_input.rows

\* a split that returned after writing a last chunk shorter than the others
C4_Witness ==
    /\ spc = "done"
    /\ Len(created) >= 2
    /\ Len(df) % chunk_size # 0
    /\ chunk_size >= 2

\* C5: a split of a sheet without rows ends in an error, having written no
\* file; no split returns having written no chunk.
C5_EmptyInputFails ==
    /\ (split_input.exists /\ split_input.rows = <<>> /\ spc # "start") =>
          /\ spc = "error"
          /\ split_error = "Input Excel sheet is empty."
          /\ created = <<>>
          /\ DOMAIN out_dir = {}
    /\ spc = "done" => Len(created) >= 1

\* the split of an existing, empty sheet has failed
C5_Witness ==
    /\ split_input.exists
    /\ split_input.rows = <<>>
    /\ spc = "error"

\* C34 as stated: after any sequence of split runs into one output
\* directory, the chunk files in the directory are exactly the partition of
\* the most recent input: the files the last run created and no other, and
\* their rows, one file after the other, are that input.
C34_OnlyNewestPartition ==
    spc = "done" =>
        /\ DOMAIN out_dir = {created[k] : k \in 1..Len(created)}
        /\ ConcatFiles(out_dir, created) = split_input.rows

\* a run of four rows in chunks of one, then a run of two rows in chunks of
\* two into the same directory: the four chunk files of the first run are
\* still there beside the one of the second
C34_Witness ==
    /\ spc = "done"
    /\ earlier_runs = 1
    /\ Len(split_input.rows) = 2
    /\ chunk_size = 2
    /\ created = <<ChunkFileName(0, 0, 2)>>
    /\ Cardinality(DOMAIN out_dir) = 5
    /\ ChunkFileName(3, 3, 4) \in DOMAIN out_dir

\* ------------------------------------ push_items_from_excel (push_merged_items.py)
\* Text is a sequence of characters; a cell read_excel found empty is NaN.
NaN == <<"NaN">>
EmptyStr == <<>>
WhitespaceChars == {" ", "\t"}
UpperChars == <<"A", "B", "C", "D", "E", "F", "G", "H", "I", "J", "K", "L", "M",
                "N", "O", "P", "Q", "R", "S", "T", "U", "V", "W", "X", "Y", "Z">>
LowerChars == <<"a", "b", "c", "d", "e", "f", "g", "h", "i", "j", "k", "l", "m",
                "n", "o", "p", "q", "r", "s", "t", "u", "v", "w", "x", "y", "z">>

\* str.lower, one character
LowerChar(c) ==
    IF \E i \in 1..Len(UpperChars) : UpperChars[i] = c
    THEN LowerChars[CHOOSE i \in 1..Len(UpperChars) : UpperChars[i] = c]
    ELSE c

\* str.lower
StrLower(s) == [i \in 1..Len(s) |-> LowerChar(s[i])]

RECURSIVE LStrip(_)
LStrip(s) ==
    IF s # <<>> /\ Head(s) \in WhitespaceChars THEN LStrip(Tail(s)) ELSE s

RECURSIVE RStrip(_)
RStrip(s) ==
    IF s # <<>> /\ s[Len(s)] \in WhitespaceChars
    THEN RStrip(SubSeq(s, 1, Len(s) - 1)) ELSE s

\* str.strip
Strip(s) == RStrip(LStrip(s))

\* "".join(s.split()): every whitespace character removed
IsNotWhitespace(c) == c \notin WhitespaceChars
JoinSplit(s) == SelectSeq(s, IsNotWhitespace)

\* _normalize_col
NormalizeCol(col) == JoinSplit(StrLower(Strip(col)))

\* TARGET_COLUMNS
KeywordName == <<"k", "e", "y", "w", "o", "r", "d">>
ULineName == <<"U", "_", "l", "i", "n", "e">>
ItemName == <<"I", "t", "e", "m">>
TARGET_COLUMNS == <<KeywordName, ULineName, ItemName>>

keyword_candidates ==
    <<<<"k", "e", "y", "w", "o", "r", "d">>,
     <<"k", "e", "y", " ", "w", "o", "r", "d">>,
     <<"k", "e", "y", "_", "w", "o", "r", "d">>,
     <<"k", "e", "y", "-", "w", "o", "r", "d">>,
     <<"k", "e", "y", "w">>,
     <<"k", "e", "y", "w", "r", "d">>,
     <<"k", "e", "y", "w", "o", "r", "d", "(", "s", ")">>>>
line_candidates ==
    <<<<"u", "_", "l", "i", "n", "e">>,
     <<"u", "l", "i", "n", "e">>,
     <<"l", "i", "n", "e">>,
     <<"u", " ", "l", "i", "n", "e">>,
     <<"u", "-", "l", "i", "n", "e">>>>
item_candidates ==
    <<<<"i", "t", "e", "m">>,
     <<"i", "t", "e", "m", "s">>>>

NoCol == <<"no column">>
SeqRange(s) == {s[i] : i \in 1..Len(s)}

\* normalized = {_normalize_col(c): c for c in existing}: for one key, the
\* last column with that normal form
NormalizedKeys(columns) == {NormalizeCol(c) : c \in SeqRange(columns)}
NormalizedGet(columns, key) ==
    columns[CHOOSE i \in 1..Len(columns) :
               /\ NormalizeCol(columns[i]) = key
               /\ \A j \in (i + 1)..Len(columns) : NormalizeCol(columns[j]) # key]

\* pick(cands): the column of the first candidate whose normal form is a key
PickLastCandidate(cands, columns) ==
    LET hits == {i \in 1..Len(cands) : NormalizeCol(cands[i]) \in NormalizedKeys(columns)}
    IN  IF hits = {} THEN NoCol
        ELSE NormalizedGet(columns,
                 NormalizeCol(cands[CHOOSE i \in hits : \A j \in hits : i >= j]))

Pick(cands, columns) ==
    LET hits == {i \in 1..Len(cands) : NormalizeCol(cands[i]) \in NormalizedKeys(columns)}
    IN  IF hits = {} THEN NoCol
        ELSE NormalizedGet(columns,
                 NormalizeCol(cands[CHOOSE i \in hits : \A j \in hits : i <= j]))

\* _build_column_map: picked column -> canonical name (a later assignment to
\* the same key replaces an earlier one; an empty column name is falsy)
BuildColumnMap(columns) ==
    LET keyword_col == Pick(keyword_candidates, columns)
        line_col == Pick(line_candidates, columns)
        item_col == Pick(item_candidates, columns)
        picked == {keyword_col, line_col, item_col} \ {NoCol, EmptyStr}
    IN  [c \in picked |-> IF c = item_col THEN ItemName
                          ELSE IF c = line_col THEN ULineName
                          ELSE KeywordName]

\* df.rename(columns=col_map): the column labels after renaming
Rename(columns, col_map) ==
    [i \in 1..Len(columns) |->
        IF columns[i] \in DOMAIN col_map THEN col_map[columns[i]] ELSE columns[i]]

\* missing = [c for c in TARGET_COLUMNS if c not in renamed.columns]
MissingOnlyIfAllAbsent(renamed) ==
    IF \A c \in SeqRange(TARGET_COLUMNS) : c \notin SeqRange(renamed)
    THEN SeqRange(TARGET_COLUMNS) ELSE {}

Missing(renamed) == {c \in SeqRange(TARGET_COLUMNS) : c \notin SeqRange(renamed)}

\* the positions of the columns labelled name
Positions(renamed, name) == {i \in 1..Len(renamed) : renamed[i] = name}

\* renamed[name] is a Series only when exactly one column has that label: no
\* such column is a KeyError, several make a DataFrame that cannot be assigned
\* to a single column of out
SelectsSeries(renamed) ==
    \A c \in SeqRange(TARGET_COLUMNS) : Cardinality(Positions(renamed, c)) = 1

\* _clean_str_series, one value: fillna(""), replace of the whole values "nan"
\* and "None", then strip
NanToken == <<"n", "a", "n">>
NoneToken == <<"N", "o", "n", "e">>
FillNa(v) == IF v = NaN THEN EmptyStr ELSE v
ReplaceTokens(v) == IF v \in {NanToken, NoneToken} THEN EmptyStr ELSE v
CleanStr(v) == Strip(ReplaceTokens(FillNa(v)))

\* out: the three cleaned canonical columns, row by row
CleanRow(renamed, cells) ==
    LET col(name) == cells[CHOOSE i \in Positions(renamed, name) : TRUE]
    IN  [keyword |-> CleanStr(col(KeywordName)),
         U_line |-> CleanStr(col(ULineName)),
         Item |-> CleanStr(col(ItemName))]

CleanFrame(renamed, data) == [r \in 1..Len(data) |-> CleanRow(renamed, data[r])]

\* all_empty and send_mask, for one row of out
AllEmpty(row) == row.keyword = EmptyStr /\ row.U_line = EmptyStr /\ row.Item = EmptyStr
AllFilled(row) == row.keyword # EmptyStr /\ row.U_line # EmptyStr /\ row.Item # EmptyStr

SendMaskDropsNothing(row, a) == TRUE

SendMaskRequireFirst(row, a) ==
    IF a.require_all_fields THEN AllFilled(row)
    ELSE IF a.include_all_rows THEN TRUE
    ELSE ~AllEmpty(row)

SendMask(row, a) ==
    IF a.include_all_rows THEN TRUE
    ELSE IF a.require_all_fields THEN AllFilled(row)
    ELSE ~AllEmpty(row)

RECURSIVE Filter(_, _)
\* out[send_mask]: the rows whose mask is true, in order
Filter(frame, a) ==
    IF frame = <<>> THEN <<>>
    ELSE (IF SendMask(Head(frame), a) THEN <<Head(frame)>> ELSE <<>>)
             \o Filter(Tail(frame), a)

\* if not rows: raise SystemExit
NoValidRowsNever(rws) == FALSE

NoValidRows(rws) == rws = <<>>

\* _chunk_list: items[i : i + chunk_size] for i in range(0, len(items), chunk_size)
ChunkCount(items, size) == (Len(items) + size - 1) \div size

ChunkOverlapping(items, size, k) ==
    SubSeq(items, Max(1, (k - 1) * size), Min(k * size, Len(items)))

Chunk(items, size, k) ==
    SubSeq(items, (k - 1) * size + 1, Min(k * size, Len(items)))

\* status_forcelist of _build_retry_session
StatusForcelist == {429, 500, 502, 503, 504}

\* the statuses for which urllib3's Retry honours a Retry-After header
\* (respect_retry_after_header=True): Retry.RETRY_AFTER_STATUS_CODES
RetryAfterStatusCodes == {413, 429, 503}

\* the responses the server may give to one PUT of a batch, and the failure
\* of the connection
NoWire ==
    [kind |-> "none", status |-> 0, json |-> "none", data |-> {}, retry_after |-> FALSE]
ConnError ==
    [kind |-> "conn_error", status |-> 0, json |-> "none", data |-> {}, retry_after |-> FALSE]
HttpResponse(status, json, data) ==
    [kind |-> "response", status |-> status, json |-> json, data |-> data,
     retry_after |-> FALSE]
\* the response with a Retry-After header
WithRetryAfter(w) == [w EXCEPT !.retry_after = TRUE]
WireOutcomes(batch) ==
    {ConnError,
     HttpResponse(503, "object", {<<"received", 1>>, <<"inserted", 1>>}),
     HttpResponse(404, "text", {}),
     WithRetryAfter(HttpResponse(413, "text", {})),
     HttpResponse(200, "object", {<<"received", Len(batch)>>, <<"inserted", Len(batch)>>}),
     HttpResponse(200, "object", {<<"received", Len(batch)>>}),
     HttpResponse(200, "text", {})}

\* Retry(total=total_retries, status_forcelist=..., allowed_methods={"PUT"},
\* raise_on_status=False, respect_retry_after_header=True): a failed
\* connection, a response whose status is in the forcelist, and a response
\* that carries Retry-After under one of the statuses for which Retry honours
\* it, are retried while retries remain
Retryable(w) ==
    \/ w.kind = "conn_error"
    \/ w.kind = "response" /\ w.status \in StatusForcelist
    \/ w.kind = "response" /\ w.retry_after /\ w.status \in RetryAfterStatusCodes

RetriesRemainNever(attempts_made, total_retries) == FALSE

RetriesRemain(attempts_made, total_retries) == attempts_made <= total_retries

\* int(data.get(key, 0) or 0), and 0 when resp.json() or the parse raises
ParseCount(w, key) ==
    IF w.json = "object" /\ \E p \in w.data : p[1] = key
    THEN (CHOOSE p \in w.data : p[1] = key)[2]
    ELSE 0

\* the Excel files of the runs: the columns of each file carry the fields of
\* the raw rows below, under the labels given
RawRows ==
    {<<<<" ", "a", "b", " ">>, <<"c">>, <<" ", "n", "a", "n">>>>,
     <<NaN, <<"c", " ">>, NanToken>>,
     <<NaN, NoneToken, <<" ">>>>}

CanonicalHeader ==
    <<[name |-> KeywordName, field |-> 1], [name |-> ULineName, field |-> 2],
      [name |-> ItemName, field |-> 3]>>
OtherHeaders ==
    {<<[name |-> <<" ", "I", "T", "E", "M", "S">>, field |-> 3], [name |-> <<"K", "e", "y", " ", "W", "o", "r", "d">>, field |-> 1],
       [name |-> <<"U", " ", "L", "i", "n", "e">>, field |-> 2]>>,
     <<[name |-> KeywordName, field |-> 1], [name |-> <<"N", "o", "t", "e", "s">>, field |-> 0],
       [name |-> ItemName, field |-> 3]>>,
     <<[name |-> <<"N", "o", "t", "e", "s">>, field |-> 0]>>,
     <<[name |-> KeywordName, field |-> 1], [name |-> <<"K", "e", "y", "w", "o", "r", "d">>, field |-> 1],
       [name |-> ULineName, field |-> 2], [name |-> ItemName, field |-> 3]>>}

ExcelFile(header, raws) ==
    [exists |-> TRUE, readable |-> TRUE,
     columns |-> [i \in 1..Len(header) |-> header[i].name],
     data |-> [r \in 1..Len(raws) |->
                 [i \in 1..Len(header) |->
                     IF header[i].field = 0 THEN <<"x">> ELSE raws[r][header[i].field]]]]

NoFile == [exists |-> FALSE, readable |-> FALSE, columns |-> <<>>, data |-> <<>>]
BrokenFile == [exists |-> TRUE, readable |-> FALSE, columns |-> <<>>, data |-> <<>>]

PushFiles ==
    {NoFile, BrokenFile}
        \cup {ExcelFile(CanonicalHeader, raws) : raws \in SeqsUpTo(RawRows, MaxPushRows)}
        \cup {ExcelFile(h, raws) : h \in OtherHeaders, raws \in SeqsUpTo(RawRows, 1)}

PushArgs ==
    [batch_size : 1..MaxBatchSize, retries : {0, MaxRetries}, dry_run : BOOLEAN,
     require_all_fields : BOOLEAN, include_all_rows : BOOLEAN,
     continue_on_error : BOOLEAN]

\* UploadResult(...)
UploadResult(total, valid, dropped_rows, sent, received, inserted) ==
    [total_rows_in_excel |-> total, valid_rows |-> valid, dropped_rows |-> dropped_rows,
     batches_sent |-> sent, received_total |-> received, inserted_total |-> inserted]

\* msg of lines 245 and 253-256: the batch it names, its wording, and the
\* status code it quotes (0 where the wording quotes the exception instead)
NoMsg == [batch |-> 0, text |-> NoValue, status |-> 0]
BatchErrorMsg(idx, w) ==
    IF w.kind = "conn_error"
    THEN [batch |-> idx, text |-> "request failed after retries", status |-> 0]
    ELSE [batch |-> idx, text |-> "HTTP", status |-> w.status]

\* line 251: resp.status_code >= 400
HttpErrorOnlyServerSide(status) == status >= 500

HttpError(status) == status >= 400

\* lines 246-249 and 257-260: print(msg); continue, or raise SystemExit(msg)
ContinueAfterFailureAlways(a) == TRUE

ContinueAfterFailure(a) == a.continue_on_error

\* the API accepted what this PUT carried
Accepted(w) == w.kind = "response" /\ w.status < 400

PushIdle ==
    /\ ppc = "idle"
    /\ push_file = NoFile
    /\ args = [batch_size |-> 1, retries |-> 0, dry_run |-> FALSE,
               require_all_fields |-> FALSE, include_all_rows |-> FALSE,
               continue_on_error |-> FALSE]
    /\ total_rows = 0
    /\ out = <<>>
    /\ rows = <<>>
    /\ dropped = 0
    /\ batch_idx = 0
    /\ attempt = 0
    /\ wire = NoWire
    /\ dispatched = <<>>
    /\ batches_sent = 0
    /\ received_total = 0
    /\ inserted_total = 0
    /\ push_error = NoValue
    /\ push_result = <<>>
    /\ msg = NoMsg
    /\ acked = {}

PushInit ==
    /\ ppc = "start"
    /\ push_file \in PushFiles
    /\ args \in PushArgs
    /\ total_rows = 0
    /\ out = <<>>
    /\ rows = <<>>
    /\ dropped = 0
    /\ batch_idx = 0
    /\ attempt = 0
    /\ wire = NoWire
    /\ dispatched = <<>>
    /\ batches_sent = 0
    /\ received_total = 0
    /\ inserted_total = 0
    /\ push_error = NoValue
    /\ push_result = <<>>
    /\ msg = NoMsg
    /\ acked = {}

\* col_map = _build_column_map(df.columns), tabulated once for the header rows
\* of the files above; renamed = df.rename(columns=col_map)
ColumnMapTable == [cols \in {f.columns : f \in PushFiles} |-> BuildColumnMap(cols)]
Renamed == Rename(push_file.columns, ColumnMapTable[push_file.columns])

\* raise SystemExit(msg) before the upload loop
PushAbort(reason) ==
    /\ ppc' = "error"
    /\ push_error' = reason
    /\ UNCHANGED <<push_file, args, out, rows, dropped, batch_idx, attempt, wire,
                   dispatched, batches_sent, received_total, inserted_total,
                   push_result, msg, acked>>
    /\ UNCHANGED notPush

\* lines 150-152
PushFileMissing ==
    /\ ppc = "start"
    /\ ~push_file.exists
    /\ UNCHANGED total_rows
    /\ PushAbort("Excel file not found")

\* lines 167-170
PushReadFailed ==
    /\ ppc = "start"
    /\ push_file.exists /\ ~push_file.readable
    /\ UNCHANGED total_rows
    /\ PushAbort("Failed to read Excel")

\* lines 172-174
PushSheetEmpty ==
    /\ ppc = "start"
    /\ push_file.exists /\ push_file.readable
    /\ push_file.data = <<>>
    /\ total_rows' = 0
    /\ PushAbort("Excel sheet is empty.")

\* lines 176-185
PushMissingColumns ==
    /\ ppc = "start"
    /\ push_file.exists /\ push_file.readable
    /\ push_file.data # <<>>
    /\ Missing(Renamed) # {}
    /\ total_rows' = Len(push_file.data)
    /\ PushAbort("Missing required columns in Excel.")

\* lines 187-190 raise (KeyError, ValueError): a canonical label that is not
\* the label of exactly one column
PushColumnLookupFails ==
    /\ ppc = "start"
    /\ push_file.exists /\ push_file.readable
    /\ push_file.data # <<>>
    /\ Missing(Renamed) = {}
    /\ ~SelectsSeries(Renamed)
    /\ total_rows' = Len(push_file.data)
    /\ PushAbort("uncaught exception")

\* lines 187-212: clean the three columns, apply the send policy
PushSelect ==
    /\ ppc = "start"
    /\ push_file.exists /\ push_file.readable
    /\ push_file.data # <<>>
    /\ Missing(Renamed) = {}
    /\ SelectsSeries(Renamed)
    /\ total_rows' = Len(push_file.data)
    /\ LET frame == CleanFrame(Renamed, push_file.data)
           to_send == Filter(frame, args)
       IN  /\ out' = frame
           /\ rows' = to_send
           /\ dropped' = Len(push_file.data) - Len(to_send)
    /\ ppc' = "selected"
    /\ UNCHANGED <<push_file, args, batch_idx, attempt, wire, dispatched, batches_sent,
                   received_total, inserted_total, push_error, push_result, msg, acked>>
    /\ UNCHANGED notPush

\* lines 214-215
PushNoValidRows ==
    /\ ppc = "selected"
    /\ NoValidRows(rows)
    /\ UNCHANGED total_rows
    /\ PushAbort("No valid rows to upload after cleaning.")

\* lines 223-230: the UploadResult of a dry run
DryRunResultCountsBatches(total, valid, dropped_rows, size) ==
    UploadResult(total, valid, dropped_rows, (valid + size - 1) \div size, 0, 0)

DryRunResult(total, valid, dropped_rows, size) ==
    UploadResult(total, valid, dropped_rows, 0, 0, 0)

\* lines 217-230
PushDryRun ==
    /\ ppc = "selected"
    /\ ~NoValidRows(rows)
    /\ args.dry_run
    /\ ppc' = "done"
    /\ push_result' = <<DryRunResult(total_rows, Len(rows), dropped, args.batch_size)>>
    /\ UNCHANGED <<push_file, args, total_rows, out, rows, dropped, batch_idx, attempt,
                   wire, dispatched, batches_sent, received_total, inserted_total,
                   push_error, msg, acked>>
    /\ UNCHANGED notPush

\* lines 232-239
PushBuildSession ==
    /\ ppc = "selected"
    /\ ~NoValidRows(rows)
    /\ ~args.dry_run
    /\ ppc' = "loop"
    /\ received_total' = 0
    /\ inserted_total' = 0
    /\ batches_sent' = 0
    /\ UNCHANGED <<push_file, args, total_rows, out, rows, dropped, batch_idx, attempt,
                   wire, dispatched, push_error, push_result, msg, acked>>
    /\ UNCHANGED notPush

\* one PUT goes out: the first of the next batch of _chunk_list, or, inside
\* session.put, the next attempt of the batch that is being retried
PutGoesOut ==
    /\ \/ ppc = "retry"
       \/ ppc = "loop" /\ batch_idx < ChunkCount(rows, args.batch_size)
    /\ IF ppc = "retry"
         THEN /\ attempt' = attempt + 1
              /\ UNCHANGED <<batch_idx, dispatched>>
         ELSE /\ attempt' = 1
              /\ batch_idx' = batch_idx + 1
              /\ dispatched' = Append(dispatched, Chunk(rows, args.batch_size, batch_idx + 1))
    /\ UNCHANGED <<push_file, args, total_rows, out, rows, dropped, push_result>>
    /\ UNCHANGED notPush

CurrentBatch == dispatched'[Len(dispatched')]

\* lines 108-118: the attempt failed in a retryable way and retries remain
PutRetry ==
    /\ PutGoesOut
    /\ \E w \in WireOutcomes(CurrentBatch) :
        /\ Retryable(w)
        /\ RetriesRemain(attempt', args.retries)
        /\ wire' = w
    /\ ppc' = "retry"
    /\ UNCHANGED <<batches_sent, received_total, inserted_total, push_error, msg, acked>>

\* lines 244-260: the request failed after its retries, or the response that
\* session.put returns has a status >= 400
PutFailed ==
    /\ PutGoesOut
    /\ \E w \in WireOutcomes(CurrentBatch) :
        /\ ~(Retryable(w) /\ RetriesRemain(attempt', args.retries))
        /\ w.kind = "conn_error" \/ HttpError(w.status)
        /\ wire' = w
        /\ msg' = BatchErrorMsg(batch_idx', w)
        /\ acked' = IF Accepted(w) THEN acked \cup {batch_idx'} ELSE acked
    /\ IF ContinueAfterFailure(args)
         THEN ppc' = "loop" /\ UNCHANGED push_error
         ELSE ppc' = "error" /\ push_error' = "Batch failed"
    /\ UNCHANGED <<batches_sent, received_total, inserted_total>>

\* lines 262-285: the response has a status below 400
PutSucceeded ==
    /\ PutGoesOut
    /\ \E w \in WireOutcomes(CurrentBatch) :
        /\ ~(Retryable(w) /\ RetriesRemain(attempt', args.retries))
        /\ w.kind = "response" /\ ~HttpError(w.status)
        /\ wire' = w
        /\ acked' = IF Accepted(w) THEN acked \cup {batch_idx'} ELSE acked
        /\ batches_sent' = batches_sent + 1
        /\ received_total' = received_total + ParseCount(w, "received")
        /\ inserted_total' = inserted_total + ParseCount(w, "inserted")
    /\ ppc' = "loop"
    /\ UNCHANGED <<push_error, msg>>

\* lines 287-302: _chunk_list is exhausted
PushReturn ==
    /\ ppc = "loop"
    /\ batch_idx >= ChunkCount(rows, args.batch_size)
    /\ ppc' = "done"
    /\ push_result' = <<UploadResult(total_rows, Len(rows), dropped, batches_sent,
                                     received_total, inserted_total)>>
    /\ UNCHANGED <<push_file, args, total_rows, out, rows, dropped, batch_idx, attempt,
                   wire, dispatched, batches_sent, received_total, inserted_total,
                   push_error, msg, acked>>
    /\ UNCHANGED notPush

PushNext ==
    \/ PushFileMissing
    \/ PushReadFailed
    \/ PushSheetEmpty
    \/ PushMissingColumns
    \/ PushColumnLookupFails
    \/ PushSelect
    \/ PushNoValidRows
    \/ PushDryRun
    \/ PushBuildSession
    \/ PutRetry
    \/ PutFailed
    \/ PutSucceeded
    \/ PushReturn

RECURSIVE ConcatAll(_)
\* the batches of a list joined in order
ConcatAll(batches) ==
    IF batches = <<>> THEN <<>> ELSE Head(batches) \o ConcatAll(Tail(batches))

\* C6: the batches put on the wire are contiguous slices of the records to
\* send, in order and disjoint: the k-th is the records (k-1)*B+1 .. of rows,
\* every batch that has a successor holds exactly B records and none holds
\* more than B or none at all; when an upload run returns, the batches are
\* exhaustive: joined in order they are the records to send.
C6_BatchesPartitionRows ==
    LET B == args.batch_size
        n == Len(dispatched)
    IN  /\ \A k \in 1..n :
              /\ Len(dispatched[k]) >= 1
              /\ Len(dispatched[k]) <= B
              /\ k < n => Len(dispatched[k]) = B
              /\ (k - 1) * B + Len(dispatched[k]) <= Len(rows)
              /\ \A j \in 1..Len(dispatched[k]) : dispatched[k][j] = rows[(k - 1) * B + j]
        /\ (ppc = "done" /\ ~args.dry_run) => ConcatAll(dispatched) = rows

\* an upload run returned after a full batch and a shorter last batch
C6_Witness ==
    /\ ppc = "done"
    /\ Len(rows) = 3
    /\ args.batch_size = 2
    /\ Len(dispatched) = 2
    /\ Len(dispatched[2]) = 1

\* C7: an attempt that meets a retryable status while retries remain is
\* retried and counts nothing; the attempt that meets status 200 makes the
\* batch one sent batch and adds the counts of that response, and of no
\* other, to the totals.
C7_RetriedBatchCountedOnce ==
    [][(attempt' # attempt \/ batch_idx' # batch_idx) =>
          /\ (wire'.kind = "response" /\ wire'.status \in {429, 500, 502, 503, 504}
                  /\ attempt' <= args.retries) =>
                /\ ppc' = "retry"
                /\ UNCHANGED <<batches_sent, received_total, inserted_total>>
          /\ (wire'.kind = "response" /\ wire'.status = 200) =>
                LET reported(key) ==
                        IF wire'.json = "object" /\ \E q \in wire'.data : q[1] = key
                        THEN (CHOOSE q \in wire'.data : q[1] = key)[2] ELSE 0
                IN  /\ batches_sent' = batches_sent + 1
                    /\ received_total' = received_total + reported("received")
                    /\ inserted_total' = inserted_total + reported("inserted")
                    /\ ppc' = "loop"]_vars

\* the first batch succeeded at its third attempt and was counted once
C7_Witness ==
    /\ ppc = "loop"
    /\ batch_idx = 1
    /\ attempt = 3
    /\ wire.status = 200
    /\ batches_sent = 1
    /\ received_total = Len(dispatched[1])
    /\ inserted_total = Len(dispatched[1])

\* C8: once the rows are selected, the records to send are the rows of the
\* cleaned frame, in order, that the policy admits: all with include_all_rows
\* (whatever require_all_fields), else with require_all_fields those with
\* three non-empty fields, else those not blank in all three; only such rows
\* are put on the wire; dropped = total - valid, also in the result; and the
\* run does not fail at the selection while some row is admitted.
C8_RowSelection ==
    out # <<>> =>
        LET Blank(r) == r.keyword = <<>> /\ r.U_line = <<>> /\ r.Item = <<>>
            Full(r) == r.keyword # <<>> /\ r.U_line # <<>> /\ r.Item # <<>>
            Eligible(r) == \/ args.include_all_rows
                           \/ ~args.include_all_rows /\ args.require_all_fields /\ Full(r)
                           \/ ~args.include_all_rows /\ ~args.require_all_fields /\ ~Blank(r)
        IN  /\ Len(out) = Len(push_file.data)
            /\ rows = SelectSeq(out, Eligible)
            /\ total_rows = Len(push_file.data)
            /\ dropped = total_rows - Len(rows)
            /\ \A k \in 1..Len(dispatched) : \A j \in 1..Len(dispatched[k]) :
                  Eligible(dispatched[k][j])
            /\ push_result # <<>> =>
                  /\ push_result[1].valid_rows = Len(rows)
                  /\ push_result[1].dropped_rows =
                         push_result[1].total_rows_in_excel - push_result[1].valid_rows
            /\ (\E i \in 1..Len(out) : Eligible(out[i])) =>
                  push_error # "No valid rows to upload after cleaning."

\* an upload under require_all_fields returned, having dropped a row and sent
\* another
C8_Witness ==
    /\ ppc = "done"
    /\ args.require_all_fields /\ ~args.include_all_rows /\ ~args.dry_run
    /\ dropped >= 1
    /\ batches_sent >= 1
    /\ push_result # <<>>

\* no PUT was attempted and nothing was returned
PushMadeNoRequest ==
    /\ dispatched = <<>>
    /\ attempt = 0
    /\ wire.kind = "none"
    /\ batches_sent = 0
    /\ push_result = <<>>

\* C9: when the file is missing, unreadable or without rows, or when no row
\* survives the send policy, the run ends in an error without a single PUT
\* attempt, without a sent batch and without a result.
C9_NoRequestOnInvalidInput ==
    /\ (ppc # "start" /\ (~push_file.exists \/ ~push_file.readable \/ push_file.data = <<>>))
          => ppc = "error" /\ PushMadeNoRequest
    /\ (out # <<>> /\ rows = <<>>)
          => ppc \in {"selected", "error"} /\ PushMadeNoRequest
    /\ (ppc = "error" /\ push_error # "Batch failed") => PushMadeNoRequest

\* a real run in which the policy admitted none of several rows has failed
C9_Witness ==
    /\ ppc = "error"
    /\ Len(out) >= 2
    /\ rows = <<>>
    /\ ~args.dry_run
    /\ push_error = "No valid rows to upload after cleaning."

\* the canonical columns (1 keyword, 2 U_line, 3 Item) that a header row
\* provides: those with a header whose normal form is that of an alias
AliasesOf(c) ==
    IF c = 1 THEN keyword_candidates ELSE IF c = 2 THEN line_candidates ELSE item_candidates
FoundColumns ==
    [cols \in {f.columns : f \in PushFiles} |->
        {c \in 1..3 : \E i \in 1..Len(cols), a \in 1..Len(AliasesOf(c)) :
                          NormalizeCol(cols[i]) = NormalizeCol(AliasesOf(c)[a])}]

\* C10 (as amended): partial column presence is not tolerated: a run on a
\* readable file with rows fails with "Missing required columns" exactly when
\* at least one of the three canonical columns is not found after
\* reconciliation, and then nothing is cleaned, selected or sent.
C10_AllThreeColumnsRequired ==
    (ppc # "start" /\ push_file.exists /\ push_file.readable /\ push_file.data # <<>>) =>
        /\ push_error = "Missing required columns in Excel."
              <=> FoundColumns[push_file.columns] # 1..3
        /\ FoundColumns[push_file.columns] # 1..3 =>
              ppc = "error" /\ out = <<>> /\ PushMadeNoRequest

\* a file with two of the three canonical columns was refused
C10_Witness ==
    /\ ppc = "error"
    /\ push_error = "Missing required columns in Excel."
    /\ Cardinality(FoundColumns[push_file.columns]) = 2

\* C10 as stated: with at least one canonical column found, the run does not
\* fail for missing columns.
C10_PartialColumnsTolerated ==
    (ppc # "start" /\ push_file.exists /\ push_file.readable /\ push_file.data # <<>>
         /\ FoundColumns[push_file.columns] # {})
        => push_error # "Missing required columns in Excel."

\* a PUT attempt ended its batch in failure: the connection failed with no
\* retry left, or the response session.put hands back has a status >= 400
BatchFailedNow ==
    /\ attempt' # attempt \/ batch_idx' # batch_idx
    /\ \/ wire'.kind = "conn_error" /\ attempt' > args.retries
       \/ /\ wire'.kind = "response" /\ wire'.status >= 400
          /\ ~(attempt' <= args.retries
                  /\ (\/ wire'.status \in {429, 500, 502, 503, 504}
                      \/ wire'.retry_after /\ wire'.status \in {413, 429, 503}))

\* C11: a batch that fails adds nothing to batches_sent, received_total and
\* inserted_total; with continue_on_error the loop goes on, and the next PUT
\* there is carries the next batch; without it the run ends at once in an
\* error whose message names the batch and, when a response came, its status
\* code, no result is returned, and no later batch is ever put on the wire.
\* batches_sent counts the batches the API answered below 400 and no other.
C11_FailedBatch ==
    /\ [][batches_sent' = Cardinality(acked')]_vars
    /\ [][ppc # "error"]_vars
    /\ [][(ppc' = "error" /\ push_error' = "Batch failed") =>
             /\ ~args.continue_on_error
             /\ msg'.batch = batch_idx'
             /\ Len(dispatched') = batch_idx'
             /\ push_result' = <<>>]_vars
    /\ [][BatchFailedNow =>
             /\ UNCHANGED <<batches_sent, received_total, inserted_total>>
             /\ msg'.batch = batch_idx'
             /\ wire'.kind = "response" => msg'.status = wire'.status
             /\ IF args.continue_on_error
                  THEN /\ ppc' = "loop"
                       /\ push_error' = push_error
                  ELSE /\ ppc' = "error"
                       /\ push_error' = "Batch failed"]_vars
    /\ [][(ppc = "loop" /\ Len(dispatched') > Len(dispatched)) =>
             /\ Len(dispatched') = Len(dispatched) + 1
             /\ batch_idx' = batch_idx + 1
             /\ dispatched'[batch_idx'] =
                    SubSeq(rows, batch_idx * args.batch_size + 1,
                           IF batch_idx' * args.batch_size <= Len(rows)
                           THEN batch_idx' * args.batch_size ELSE Len(rows))]_vars

\* with continue_on_error the first batch failed on a 404, the second was
\* sent, and the run returned one sent batch
C11_Witness ==
    /\ ppc = "done"
    /\ args.continue_on_error
    /\ Len(dispatched) = 2
    /\ msg.batch = 1 /\ msg.status = 404
    /\ acked = {2}
    /\ push_result[1].batches_sent = 1

\* row i of the records to send was carried by a PUT the API answered with a
\* status below 400
Delivered(i) ==
    \E k \in acked :
        /\ k <= Len(dispatched)
        /\ \E j \in 1..Len(dispatched[k]) :
              /\ (k - 1) * args.batch_size + j = i
              /\ dispatched[k][j] = rows[i]

\* C12 (as amended): when a run that is not a dry run and has
\* continue_on_error unset returns, every record to send was carried by a PUT
\* that was answered with a status below 400; with continue_on_error set, the
\* records delivered when the run returns are those of the batches counted in
\* batches_sent, and the records of every failed batch were not delivered.
C12_AtLeastOnceUnlessContinuing ==
    (ppc = "done" /\ ~args.dry_run) =>
        /\ ~args.continue_on_error => \A i \in 1..Len(rows) : Delivered(i)
        /\ push_result[1].batches_sent = Cardinality(acked)
        /\ \A i \in 1..Len(rows) :
              Delivered(i) <=> ((i - 1) \div args.batch_size) + 1 \in acked

\* a run without continue_on_error returned after three records in two
\* batches, the second of which needed a second attempt
C12_Witness ==
    /\ ppc = "done"
    /\ ~args.dry_run /\ ~args.continue_on_error
    /\ Len(rows) = 3
    /\ acked = {1, 2}
    /\ attempt = 2
    /\ \A i \in 1..3 : Delivered(i)

\* C12 as stated: whenever a run that is not a dry run returns, every record
\* to send was carried by a PUT answered with a status below 400.
C12_AtLeastOnceAlways ==
    (ppc = "done" /\ ~args.dry_run) => \A i \in 1..Len(rows) : Delivered(i)

\* what validation and selection make of a file under a send policy, whatever
\* dry_run is (read once the run is past the selection or has failed)
Verdict ==
    LET Blank(r) == r.keyword = <<>> /\ r.U_line = <<>> /\ r.Item = <<>>
        Full(r) == r.keyword # <<>> /\ r.U_line # <<>> /\ r.Item # <<>>
        Eligible(r) == \/ args.include_all_rows
                       \/ ~args.include_all_rows /\ args.require_all_fields /\ Full(r)
                       \/ ~args.include_all_rows /\ ~args.require_all_fields /\ ~Blank(r)
    IN  IF ~push_file.exists THEN "Excel file not found"
        ELSE IF ~push_file.readable THEN "Failed to read Excel"
        ELSE IF push_file.data = <<>> THEN "Excel sheet is empty."
        ELSE IF FoundColumns[push_file.columns] # 1..3
             THEN "Missing required columns in Excel."
        ELSE IF ~SelectsSeries(Renamed) THEN "uncaught exception"
        ELSE IF \A i \in 1..Len(out) : ~Eligible(out[i])
             THEN "No valid rows to upload after cleaning."
        ELSE "ok"

\* C13: a dry run never puts anything on the wire; it ends in the error a
\* real run on the same file under the same policy ends in before its first
\* PUT, and where a real run would start to upload it returns an UploadResult
\* with valid_rows the number of records to send, dropped_rows the rest of the
\* sheet, and batches_sent = received_total = inserted_total = 0.
C13_DryRun ==
    /\ args.dry_run =>
          /\ dispatched = <<>> /\ attempt = 0 /\ wire.kind = "none" /\ acked = {}
          /\ ppc \notin {"loop", "retry"}
          /\ ppc = "error" => push_error = Verdict /\ push_result = <<>>
          /\ ppc = "done" =>
                /\ Verdict = "ok"
                /\ push_result =
                       <<[total_rows_in_excel |-> Len(push_file.data),
                          valid_rows |-> Len(rows),
                          dropped_rows |-> Len(push_file.data) - Len(rows),
                          batches_sent |-> 0, received_total |-> 0,
                          inserted_total |-> 0]>>
                /\ Len(rows) >= 1
    /\ ~args.dry_run =>
          /\ ppc \in {"loop", "retry", "done"} => Verdict = "ok"
          /\ (ppc = "error" /\ push_error # "Batch failed") => push_error = Verdict
          /\ (ppc = "error" /\ push_error = "Batch failed") => Verdict = "ok"
    /\ (ppc = "selected" /\ Verdict = "ok") => ENABLED PushNext

\* a dry run over three rows, of which the policy dropped one, returned
C13_Witness ==
    /\ ppc = "done"
    /\ args.dry_run
    /\ Len(push_file.data) = 3
    /\ push_result[1].valid_rows = 2
    /\ push_result[1].dropped_rows = 1
    /\ push_result[1].batches_sent = 0

\* ------------------------------------- the entry points of the stage scripts
\* split_input_excel.py, merge_assistant2_output.py, push_merged_items.py,
\* pull_and_filter_last_monday.py (main) and run_batch_assistant1.py,
\* run_batch_assistant2.py (__main__ block)
Stages == {"split", "merge", "push", "pull", "batch1", "batch2"}
BatchStages == {"batch1", "batch2"}

Returned == [class |-> "return", text |-> NoValue]
SystemExit(text) == [class |-> "SystemExit", text |-> text]
Exception(text) == [class |-> "Exception", text |-> text]
NoException == [class |-> NoValue, text |-> NoValue]

\* the ways the work of each stage ends: it returns, it raises SystemExit with
\* one of its messages, or a call it makes raises an exception it lets through
WorkOutcomes(st) ==
    {Returned} \cup
    CASE st = "split" ->
            {SystemExit("Input Excel file not found"),
             SystemExit("Input Excel sheet is empty."),
             Exception("pd.read_excel")}
      [] st = "merge" ->
            {SystemExit("Folder not found or not a directory"),
             SystemExit("No Excel files found"),
             SystemExit("No valid chunk files to merge"),
             Exception("to_excel")}
      [] st = "push" ->
            {SystemExit("Excel file not found"),
             SystemExit("Failed to read Excel"),
             SystemExit("Excel sheet is empty."),
             SystemExit("Missing required columns in Excel."),
             SystemExit("No valid rows to upload after cleaning."),
             SystemExit("Batch failed"),
             Exception("uncaught exception")}
      [] st = "pull" ->
            {SystemExit("API returned no data."),
             SystemExit("Date column not found"),
             SystemExit("Keyword column not found"),
             SystemExit("No rows found for the last 2 weeks"),
             Exception("requests.get")}
      [] OTHER ->
            {Exception("process_files")}

\* except Exception: SystemExit derives from BaseException, not from Exception
CaughtByExceptException(e) == e.class = "Exception"

\* send_chat_message: ValueError when no webhook URL is configured, else the
\* POST, which is delivered or raises (URLError, HTTPError)
SendOutcomes(url) ==
    IF url = "unset" THEN {Exception("GOOGLE_CHAT_WEBHOOK_URL is not set")}
    ELSE {Returned, Exception("urlopen")}

\* one call of send_chat_message as the entry point sees it
Call(kind, outcome) == [kind |-> kind, delivered |-> outcome = Returned]

ExitOk == [class |-> "ok", text |-> NoValue]
Running == [class |-> "running", text |-> NoValue]

StageIdle ==
    /\ mpc = "idle"
    /\ stage = "split"
    /\ work = Returned
    /\ webhook_url = "unset"
    /\ chat_calls = <<>>
    /\ pending = NoException
    /\ exit_status = Running

StageInit ==
    /\ mpc = "try"
    /\ stage \in Stages
    /\ work \in WorkOutcomes(stage)
    /\ webhook_url \in {"unset", "set"}
    /\ chat_calls = <<>>
    /\ pending = NoException
    /\ exit_status = Running

\* the work of the stage returns: the entry point goes on to the completed
\* message (split 101-106, merge 208-210, push 368-381, pull 165-171,
\* batch runs 84-137)
WorkReturns ==
    /\ mpc = "try"
    /\ work = Returned
    /\ mpc' = "completed"
    /\ UNCHANGED <<stage, work, webhook_url, chat_calls, pending, exit_status>>
    /\ UNCHANGED notStage

\* the work raises what the except clause of the entry point catches
WorkRaisesCaught ==
    /\ mpc = "try"
    /\ work # Returned
    /\ CaughtByExceptException(work)
    /\ mpc' = "except"
    /\ pending' = work
    /\ UNCHANGED <<stage, work, webhook_url, chat_calls, exit_status>>
    /\ UNCHANGED notStage

\* the work raises what the except clause does not catch: it leaves the entry
\* point and ends the process
WorkRaisesUncaught ==
    /\ mpc = "try"
    /\ work # Returned
    /\ ~CaughtByExceptException(work)
    /\ mpc' = "exited"
    /\ exit_status' = work
    /\ UNCHANGED <<stage, work, webhook_url, chat_calls, pending>>
    /\ UNCHANGED notStage

\* the completed message is delivered
NotifyCompleted ==
    /\ mpc = "completed"
    /\ Returned \in SendOutcomes(webhook_url)
    /\ chat_calls' = Append(chat_calls, Call("completed", Returned))
    /\ mpc' = "exited"
    /\ exit_status' = ExitOk
    /\ UNCHANGED <<stage, work, webhook_url, pending>>
    /\ UNCHANGED notStage

\* send_chat_message raises on the completed message: the batch runs wrap the
\* call in a try of its own (run_batch_assistant1.py 136-139) and end well; in
\* the other entry points the call stands in the try of the work, and the
\* exception reaches its except clause
NotifyCompletedRaises ==
    /\ mpc = "completed"
    /\ \E e \in SendOutcomes(webhook_url) \ {Returned} :
          /\ chat_calls' = Append(chat_calls, Call("completed", e))
          /\ IF stage \in BatchStages
               THEN /\ mpc' = "exited"
                    /\ exit_status' = ExitOk
                    /\ UNCHANGED pending
               ELSE /\ mpc' = "except"
                    /\ pending' = e
                    /\ UNCHANGED exit_status
    /\ UNCHANGED <<stage, work, webhook_url>>
    /\ UNCHANGED notStage

\* the except clause: the failed message is tried, whatever it raises is
\* swallowed, and the exception is raised again (split 116-121)
NotifyFailedAndReraise ==
    /\ mpc = "except"
    /\ \E o \in SendOutcomes(webhook_url) :
          chat_calls' = Append(chat_calls, Call("failed", o))
    /\ mpc' = "exited"
    /\ exit_status' = pending
    /\ UNCHANGED <<stage, work, webhook_url, pending>>
    /\ UNCHANGED notStage

StageNext ==
    \/ WorkReturns
    \/ WorkRaisesCaught
    \/ WorkRaisesUncaught
    \/ NotifyCompleted
    \/ NotifyCompletedRaises
    \/ NotifyFailedAndReraise

\* C14 as stated: in every stage, a run whose own work returned ends well,
\* delivered or not; and no exception of send_chat_message ends a process.
C14_NotificationBestEffort ==
    mpc = "exited" =>
        /\ work = Returned => exit_status = ExitOk
        /\ \A o \in SendOutcomes(webhook_url) \ {Returned} : exit_status # o

\* the batch runs do what C14 says: the completed message could not be
\* delivered and the run ended well
C14_Witness ==
    /\ mpc = "exited"
    /\ stage \in BatchStages
    /\ work = Returned
    /\ chat_calls = <<Call("completed", Exception("urlopen"))>>
    /\ exit_status = ExitOk

\* C15 as stated: a process that ends with the error of its stage's work has
\* tried to send the failed message before.
C15_FailureNotified ==
    (mpc = "exited" /\ work # Returned) =>
        /\ exit_status = work
        /\ \E i \in 1..Len(chat_calls) : chat_calls[i].kind = "failed"

\* an exception that the except clause catches is notified before the exit
C15_Witness ==
    /\ mpc = "exited"
    /\ stage = "split"
    /\ work = Exception("pd.read_excel")
    /\ exit_status = work
    /\ Len(chat_calls) = 1 /\ chat_calls[1].kind = "failed"

\* ------------------- OpenAIService.get_assistant_response (openai_service.py)
\* the tools argument: None, or a list of tool types
NoTools == [is_none |-> TRUE, items |-> <<>>]
ToolList(items) == [is_none |-> FALSE, items |-> items]
ToolArgs ==
    {NoTools, ToolList(<<>>), ToolList(<<"code_interpreter">>),
     ToolList(<<"file_search">>), ToolList(<<"code_interpreter", "function">>)}

\* "if tools:" (line 259)
Truthy(t) == ~t.is_none /\ t.items # <<>>

\* lines 262-288: the tools that go into the request
ConfiguredTools(t) ==
    SelectSeq(t.items, LAMBDA ty : ty \in {"code_interpreter", "web_search", "computer_use",
                                           "image_generation", "function"})

\* the ids the service hands out: file-... for an upload and for a file of
\* the file store, cfile_... for a file of the sandbox container
FileId(prefix, n) == [prefix |-> prefix, n |-> n]
StartsWithCfile(file_id) == file_id.prefix = "cfile_"

\* the entries of extract_files_from_response: a file id and the container id
\* of the annotation, which may be empty
FileInfo(file_id, has_container) == [file_id |-> file_id, container_id |-> has_container]
GeneratedFileKinds(n) ==
    {FileInfo(FileId("cfile_", n), TRUE), FileInfo(FileId("cfile_", n), FALSE),
     FileInfo(FileId("file-", n), FALSE)}
GeneratedFiles ==
    UNION {{g \in [1..n -> UNION {GeneratedFileKinds(k) : k \in 1..n}] :
                \A k \in 1..n : g[k] \in GeneratedFileKinds(k)} : n \in 0..MaxGenerated}

\* the statuses of a response object; NoValue is an object without a status
PendingStatuses == {"queued", "in_progress"}
Statuses == PendingStatuses \cup {"completed", "failed", NoValue}

\* "response.status in ['queued', 'in_progress']" (line 338)
IsPendingQueuedOnly(status) == status = "queued"

IsPending(status) == status \in PendingStatuses

\* "time.time() - start_time > max_wait" (line 339)
TimedOut(waited, max_wait) == waited > max_wait

\* time.sleep(2)
PollInterval == 2

\* the response object the service returns: a response that failed cites no
\* file
NoResponse == [status |-> "unbound", output |-> <<>>]
ServerResponse(status, files) ==
    [status |-> status, output |-> IF status = "failed" THEN <<>> ELSE files]

\* extract_files_from_response
ExtractFiles(r) == r.output

\* one request as the service sees it, and whether it served it
ApiCall(op, arg, ok) == [op |-> op, arg |-> arg, ok |-> ok]
CountCalls(calls, op) == Cardinality({i \in 1..Len(calls) : calls[i].op = op})

\* upload_file: client.files.create raises, and upload_file raises it again
UploadRaisesNever(o) == FALSE

UploadRaises(o) == o # "ok"

\* download_file: a container file without container id is refused (425-427),
\* a container file is fetched over httpx and is good on status 200 only
\* (430-456), another file is read from the file store (459-465); every
\* exception is caught (468-470)
DownloadOutcomes == {"ok", "http_error", "exception"}
NeedsContainerIdNever(file_info) == FALSE

NeedsContainerId(file_info) == StartsWithCfile(file_info.file_id)

DownloadFile(file_info, o) ==
    IF NeedsContainerId(file_info) /\ ~file_info.container_id THEN FALSE ELSE o = "ok"

\* the ids the cleanup loop runs over (lines 724-727)
CleanupIdsFirstOnly(ids) == SubSeq(ids, 1, Min(1, Len(ids)))

CleanupIds(ids) == ids

\* create_response, lines 251-256: the request carries a conversation when
\* conversation_id is truthy (0 here: the request has no such key)
RequestConversation(id) == id

\* what the model keeps of the request of client.responses.create
RequestData(t, id) ==
    [tools |-> Len(ConfiguredTools(t)), conversation |-> RequestConversation(id)]

GatewayIdle ==
    /\ gpc = "idle"
    /\ tools = NoTools
    /\ file_paths = <<>>
    /\ use_conversation = FALSE
    /\ conversation_id = 0
    /\ conv_id = 0
    /\ generated = <<>>
    /\ file_ids = <<>>
    /\ api_calls = <<>>
    /\ response = NoResponse
    /\ elapsed = 0
    /\ dl_i = 0
    /\ downloaded_files = <<>>
    /\ del_i = 0
    /\ gerror = NoValue
    /\ gresult = <<>>
    /\ result = <<>>

\* a conversation id: 0 is None, 1 the id of a conversation that exists, 2
\* the id of the conversation that create_conversation made; conv_id starts
\* as conversation_id (line 644)
GatewayInit ==
    /\ gpc = "upload"
    /\ tools \in ToolArgs
    /\ file_paths \in {[i \in 1..n |-> i] : n \in 0..MaxUploads}
    /\ use_conversation \in BOOLEAN
    /\ conversation_id \in {0, 1}
    /\ conv_id = conversation_id
    /\ generated \in GeneratedFiles
    /\ file_ids = <<>>
    /\ api_calls = <<>>
    /\ response = NoResponse
    /\ elapsed = 0
    /\ dl_i = 0
    /\ downloaded_files = <<>>
    /\ del_i = 0
    /\ gerror = NoValue
    /\ gresult = <<>>
    /\ result = <<>>

\* raise out of get_assistant_response (its except clause logs and re-raises)
GatewayRaise(e) ==
    /\ gpc' = "raised"
    /\ gerror' = e

\* lines 637-641: the next path is uploaded
UploadFile ==
    /\ gpc = "upload"
    /\ Len(file_ids) < Len(file_paths)
    /\ LET fp == file_paths[Len(file_ids) + 1]
       IN  \E o \in {"ok", "error"} :
              /\ api_calls' = Append(api_calls, ApiCall("files.create", fp, o = "ok"))
              /\ IF UploadRaises(o)
                   THEN /\ GatewayRaise("upload failed")
                        /\ UNCHANGED file_ids
                   ELSE /\ file_ids' = Append(file_ids, FileId("file-", fp))
                        /\ UNCHANGED <<gpc, gerror>>
    /\ UNCHANGED <<tools, file_paths, use_conversation, conversation_id, conv_id, generated, response, elapsed,
                   dl_i, downloaded_files, del_i, gresult>>
    /\ UNCHANGED <<result, notGateway>>

\* lines 643-646: create or use the conversation
CreateConversation ==
    /\ gpc = "upload"
    /\ Len(file_ids) = Len(file_paths)
    /\ NeedsNewConversation(use_conversation, conv_id)
    /\ \E o \in {"ok", "error"} :
          /\ api_calls' = Append(api_calls, ApiCall("conversations.create", 0, o = "ok"))
          /\ IF o = "ok"
               THEN conv_id' = 2 /\ gpc' = "create" /\ UNCHANGED gerror
               ELSE GatewayRaise("conversation failed") /\ UNCHANGED conv_id
    /\ UNCHANGED <<tools, file_paths, use_conversation, conversation_id, generated, file_ids, response, elapsed,
                   dl_i, downloaded_files, del_i, gresult>>
    /\ UNCHANGED <<result, notGateway>>

UseConversation ==
    /\ gpc = "upload"
    /\ Len(file_ids) = Len(file_paths)
    /\ ~NeedsNewConversation(use_conversation, conv_id)
    /\ gpc' = "create"
    /\ UNCHANGED <<tools, file_paths, use_conversation, conversation_id, conv_id, generated, file_ids,
                   api_calls, response, elapsed, dl_i, downloaded_files, del_i,
                   gerror, gresult>>
    /\ UNCHANGED <<result, notGateway>>

\* create_response with tools (lines 259-315): the request goes out inside
\* "if tools:", and the polling starts on what it returns
CreateResponse ==
    /\ gpc = "create"
    /\ Truthy(tools)
    /\ \E o \in Statuses \cup {"error"} :
          /\ api_calls' = Append(api_calls, ApiCall("responses.create",
                                                    RequestData(tools, conv_id), o # "error"))
          /\ IF o = "error"
               THEN GatewayRaise("responses.create failed") /\ UNCHANGED <<response, elapsed>>
               ELSE /\ response' = ServerResponse(o, generated)
                    /\ elapsed' = 0
                    /\ gpc' = "poll"
                    /\ UNCHANGED gerror
    /\ UNCHANGED <<tools, file_paths, use_conversation, conversation_id, conv_id, generated, file_ids,
                   dl_i, downloaded_files, del_i, gresult>>
    /\ UNCHANGED <<result, notGateway>>

\* create_response without tools: "if tools:" is skipped and with it
\* client.responses.create (line 315); line 318 reads the local "response",
\* which was never bound: UnboundLocalError, logged and raised again
CreateResponseWithoutTools ==
    /\ gpc = "create"
    /\ ~Truthy(tools)
    /\ GatewayRaise("UnboundLocalError")
    /\ UNCHANGED <<tools, file_paths, use_conversation, conversation_id, conv_id, generated, file_ids,
                   api_calls, response, elapsed, dl_i, downloaded_files, del_i,
                   gresult>>
    /\ UNCHANGED <<result, notGateway>>

\* _wait_for_response_ready, line 338: the status is not a pending one; the
\* function returns and its clock is gone
WaitReturn ==
    /\ gpc = "poll"
    /\ ~IsPending(response.status)
    /\ gpc' = "download"
    /\ elapsed' = 0
    /\ UNCHANGED <<tools, file_paths, use_conversation, conversation_id, conv_id, generated, file_ids,
                   api_calls, response, dl_i, downloaded_files, del_i,
                   gerror, gresult>>
    /\ UNCHANGED <<result, notGateway>>

\* lines 339-340
WaitTimeout ==
    /\ gpc = "poll"
    /\ IsPending(response.status)
    /\ TimedOut(elapsed, MaxWait)
    /\ GatewayRaise("TimeoutError")
    /\ UNCHANGED <<tools, file_paths, use_conversation, conversation_id, conv_id, generated, file_ids,
                   api_calls, response, elapsed, dl_i, downloaded_files, del_i,
                   gresult>>
    /\ UNCHANGED <<result, notGateway>>

\* lines 342-350: sleep, then retrieve, which takes its time; what it raises
\* is swallowed and the response stays the one held
WaitPoll ==
    /\ gpc = "poll"
    /\ IsPending(response.status)
    /\ ~TimedOut(elapsed, MaxWait)
    /\ \E d \in 0..1 : elapsed' = elapsed + PollInterval + d
    /\ \E o \in Statuses \cup {"error"} :
          IF o = "error"
          THEN UNCHANGED response
          ELSE response' = ServerResponse(o, generated)
    /\ UNCHANGED <<gpc, tools, file_paths, use_conversation, conversation_id, conv_id, generated, file_ids,
                   api_calls, dl_i, downloaded_files, del_i, gerror, gresult>>
    /\ UNCHANGED <<result, notGateway>>

\* lines 696-721: the next cited file is downloaded, and listed when
\* download_file returns True
Download ==
    /\ gpc = "download"
    /\ dl_i < Len(ExtractFiles(response))
    /\ LET file_info == ExtractFiles(response)[dl_i + 1]
       IN  \E o \in DownloadOutcomes :
              /\ downloaded_files' =
                     IF DownloadFile(file_info, o)
                     THEN Append(downloaded_files, file_info.file_id)
                     ELSE downloaded_files
              /\ api_calls' =
                     IF NeedsContainerId(file_info) /\ ~file_info.container_id
                     THEN api_calls
                     ELSE Append(api_calls, ApiCall("download", file_info.file_id.n, o = "ok"))
    /\ dl_i' = dl_i + 1
    /\ UNCHANGED <<gpc, tools, file_paths, use_conversation, conversation_id, conv_id, generated, file_ids,
                   response, elapsed, del_i, gerror, gresult>>
    /\ UNCHANGED <<result, notGateway>>

\* lines 723-727 and delete_file: the next uploaded id is deleted; what the
\* delete raises is caught in delete_file
DeleteFile ==
    /\ gpc = "download"
    /\ dl_i >= Len(ExtractFiles(response))
    /\ del_i < Len(CleanupIds(file_ids))
    /\ LET file_id == CleanupIds(file_ids)[del_i + 1]
       IN  \E o \in {"ok", "error"} :
              api_calls' =
                 IF StartsWithCfile(file_id) THEN api_calls
                 ELSE Append(api_calls, ApiCall("files.delete", file_id.n, o = "ok"))
    /\ del_i' = del_i + 1
    /\ UNCHANGED <<gpc, tools, file_paths, use_conversation, conversation_id, conv_id, generated, file_ids,
                   response, elapsed, dl_i, downloaded_files, gerror, gresult>>
    /\ UNCHANGED <<result, notGateway>>

\* lines 729-737
GatewayReturn ==
    /\ gpc = "download"
    /\ dl_i >= Len(ExtractFiles(response))
    /\ del_i >= Len(CleanupIds(file_ids))
    /\ gpc' = "returned"
    /\ gresult' = <<[conversation_id |-> conv_id,
                     status |-> IF response.status = NoValue THEN "completed"
                                ELSE response.status,
                     files |-> downloaded_files]>>
    /\ UNCHANGED <<tools, file_paths, use_conversation, conversation_id, conv_id, generated, file_ids,
                   api_calls, response, elapsed, dl_i, downloaded_files, del_i,
                   gerror>>
    /\ UNCHANGED <<result, notGateway>>

\* main.py 157-171: process_request names the keys of the dictionary it
\* returns (of which the model keeps those of the gateway's dictionary)
FormatResult(response_dict) ==
    [conversation_id |-> response_dict.conversation_id, status |-> response_dict.status]

\* process_request after the gateway returned (lines 157-171)
ProcessRequestReturn ==
    /\ gpc = "returned"
    /\ result = <<>>
    /\ result' = <<FormatResult(gresult[1])>>
    /\ UNCHANGED <<gpc, tools, file_paths, use_conversation, conversation_id, conv_id,
                   generated, file_ids, api_calls, response, elapsed, dl_i,
                   downloaded_files, del_i, gerror, gresult>>
    /\ UNCHANGED notGateway

GatewayNext ==
    \/ UploadFile
    \/ CreateConversation
    \/ UseConversation
    \/ CreateResponse
    \/ CreateResponseWithoutTools
    \/ WaitReturn
    \/ WaitTimeout
    \/ WaitPoll
    \/ Download
    \/ DeleteFile
    \/ GatewayReturn
    \/ ProcessRequestReturn

C17_OneRequestWithOrWithoutTools ==
    (gpc \notin {"idle", "upload", "create"}
        /\ gerror \notin {"upload failed", "conversation failed"}) =>
        /\ CountCalls(api_calls, "responses.create") = 1
        /\ gerror # "UnboundLocalError"

\* with a tool list that holds a tool, one request went out and the call
\* returned what the polling ended on
C17_Witness ==
    /\ gpc = "returned"
    /\ tools = ToolList(<<"code_interpreter">>)
    /\ CountCalls(api_calls, "responses.create") = 1
    /\ gresult[1].status = "completed"

\* the delete requests sent so far
DeleteCalls == SelectSeq(api_calls, LAMBDA c : c.op = "files.delete")

C33_DeleteAttemptedOnEveryExit ==
    gpc \in {"returned", "raised"} =>
        \A k \in 1..Len(file_ids) :
            \E i \in 1..Len(DeleteCalls) : DeleteCalls[i].arg = file_ids[k].n

\* two files were uploaded, the response request failed, the call raised
\* and no delete request went out
C33_Witness ==
    /\ gpc = "raised"
    /\ gerror = "responses.create failed"
    /\ Len(file_ids) = 2
    /\ DeleteCalls = <<>>

\* the status _process_one's caller records for the file once the call has
\* ended: "success" beside whatever process_request returned (main.py
\* 251-255), "error" when it raised (263-268, 281-289)
RecordedStatus ==
    IF result # <<>> THEN "success"
    ELSE IF gpc = "raised" THEN "error"
    ELSE NoValue

\* C35 as stated: a file is recorded with status "success" only if its
\* response reached the status "completed"; when the response ended in
\* another terminal status the file is recorded with status "error".
C35_SuccessOnlyIfCompleted ==
    /\ RecordedStatus = "success" => result[1].status = "completed"
    /\ (RecordedStatus # NoValue /\ response # NoResponse /\ response.status = "failed")
           => RecordedStatus = "error"

\* the response ended as "failed", process_request returned it and the file
\* is recorded as a success
C35_Witness ==
    /\ response # NoResponse
    /\ response.status = "failed"
    /\ gerror = NoValue
    /\ result # <<>>
    /\ result[1].status = "failed"
    /\ RecordedStatus = "success"

\* the cited file f was fetched: a download request for it was served
Fetched(f) ==
    \E i \in 1..Len(api_calls) :
        api_calls[i].op = "download" /\ api_calls[i].arg = f.file_id.n /\ api_calls[i].ok

C20_UploadFailureAborts ==
    /\ \A i, j \in 1..Len(api_calls) :
          (api_calls[i].op = "files.create" /\ api_calls[j].op = "files.create"
               /\ api_calls[i].arg = api_calls[j].arg) => i = j
    /\ \A i \in 1..Len(api_calls) :
          (api_calls[i].op = "files.create" /\ ~api_calls[i].ok) =>
              /\ i = Len(api_calls)
              /\ gpc = "raised"
              /\ gerror = "upload failed"
              /\ conv_id # 2
              /\ CountCalls(api_calls, "conversations.create") = 0
              /\ CountCalls(api_calls, "responses.create") = 0
              /\ gresult = <<>>

\* the second of two uploads was refused in a call that asked for a
\* conversation
C20_Witness ==
    /\ gpc = "raised"
    /\ use_conversation /\ conv_id = 0
    /\ Len(file_paths) = 2
    /\ Len(api_calls) = 2
    /\ api_calls[1].ok /\ ~api_calls[2].ok
    /\ api_calls[2].op = "files.create"

\* the conversation step of the call is behind it
PastConversationStep ==
    \/ gpc \in {"create", "poll", "download", "returned"}
    \/ gpc = "raised" /\ gerror # "upload failed"

\* the response-creation requests sent so far
CreateCalls == SelectSeq(api_calls, LAMBDA c : c.op = "responses.create")

\* C21 as stated: a conversation is created exactly when use_conversation is
\* set and no id was supplied; a supplied id is the one the request carries;
\* and with use_conversation unset the request carries no conversation.
C21_StatelessWithoutUseConversation ==
    /\ PastConversationStep =>
          CountCalls(api_calls, "conversations.create") =
              (IF use_conversation /\ conversation_id = 0 THEN 1 ELSE 0)
    /\ \A k \in 1..Len(CreateCalls) :
          /\ conversation_id # 0 => CreateCalls[k].arg.conversation = conversation_id
          /\ ~use_conversation => CreateCalls[k].arg.conversation = 0

\* C21, amended: a conversation is created exactly when use_conversation is
\* set and no id was supplied, once, after the uploads and before the
\* request; a supplied id is the one the request carries, whether
\* use_conversation is set or not, and nothing is created then; the request
\* carries no conversation exactly when none was supplied and use_conversation
\* is unset; the result names the conversation the request carried.
C21_ConversationOfRequest ==
    LET expected == IF conversation_id # 0 THEN conversation_id
                    ELSE IF use_conversation THEN 2 ELSE 0
    IN  /\ PastConversationStep =>
              CountCalls(api_calls, "conversations.create") =
                  (IF use_conversation /\ conversation_id = 0 THEN 1 ELSE 0)
        /\ ~PastConversationStep => CountCalls(api_calls, "conversations.create") = 0
        /\ \A i, j \in 1..Len(api_calls) :
              (api_calls[i].op = "conversations.create" /\ i < j) =>
                  api_calls[j].op # "files.create"
        /\ \A k \in 1..Len(CreateCalls) :
              /\ CreateCalls[k].arg.conversation = expected
              /\ expected = 2 =>
                    \E i \in 1..Len(api_calls) :
                        /\ api_calls[i].op = "conversations.create" /\ api_calls[i].ok
                        /\ \E j \in (i + 1)..Len(api_calls) :
                              api_calls[j].op = "responses.create"
        /\ gpc = "returned" => gresult[1].conversation_id = expected

\* a call with use_conversation unset and an id supplied returned: its one
\* request carried the supplied conversation and none was created
C21_Witness ==
    /\ gpc = "returned"
    /\ ~use_conversation
    /\ conversation_id = 1
    /\ Len(CreateCalls) = 1
    /\ CreateCalls[1].arg.conversation = 1
    /\ CountCalls(api_calls, "conversations.create") = 0

\* C24 as stated: the dictionary that process_request hands to its caller
\* has the list of generated files, and it is the list of the files the
\* gateway downloaded.
C24_ResultCarriesFiles ==
    (gpc = "returned" /\ result # <<>>) =>
        /\ "files" \in DOMAIN result[1]
        /\ result[1].files = gresult[1].files

\* process_request returned after the gateway downloaded two files
C24_Witness ==
    /\ gpc = "returned"
    /\ result # <<>>
    /\ Len(gresult[1].files) = 2
    /\ result[1].status = gresult[1].status

\* ------------- the request: convert_tools_format (main.py), create_response
\* an entry of builtin_tools: a string, or a dictionary with a type and,
\* possibly, further keys (options)
ToolStr(type) == [form |-> "str", type |-> type, options |-> FALSE]
ToolDict(type, options) == [form |-> "dict", type |-> type, options |-> options]
ToolEntries ==
    {ToolStr("code_interpreter"), ToolStr("file_search"), ToolStr("web_search"),
     ToolStr("computer_use"), ToolDict("code_interpreter", FALSE),
     ToolDict("web_search", TRUE), ToolDict("image_generation", FALSE),
     ToolDict("function", TRUE), ToolDict("mcp", FALSE)}

BuiltinTypes ==
    {"file_search", "code_interpreter", "web_search", "computer_use", "image_generation"}

\* a tool dictionary on its way to the request: its type, whether it has
\* the further keys of its configuration, and its container
Tool(type, options) == [type |-> type, options |-> options, container |-> FALSE,
                        file_ids |-> <<>>]

RECURSIVE convert_tools_format(_)
\* main.py 62-86: a string or a dictionary of a built-in type becomes
\* {"type": type}; a function dictionary is taken as it is; anything else is
\* left out
convert_tools_format(ts) ==
    IF ts = <<>> THEN <<>>
    ELSE LET tool == Head(ts)
             rest == convert_tools_format(Tail(ts))
         IN  IF tool.type \in BuiltinTypes THEN <<Tool(tool.type, FALSE)>> \o rest
             ELSE IF tool.form = "dict" /\ tool.type = "function"
                  THEN <<Tool(tool.type, tool.options)>> \o rest
                  ELSE rest

\* the items of the input array
MessageItem(text) == [type |-> "message", text |-> text, file_id |-> 0]
InputFile(fid) == [type |-> "input_file", text |-> EmptyStr, file_id |-> fid]

\* build_input_from_message (152-193)
build_input_from_message(content, ids) ==
    (IF content # EmptyStr THEN <<MessageItem(content)>> ELSE <<>>)
        \o [k \in 1..Len(ids) |-> InputFile(ids[k])]

RECURSIVE Dedupe(_, _)
\* lines 229-232: append what is not in the list yet
Dedupe(ids, acc) ==
    IF ids = <<>> THEN acc
    ELSE Dedupe(Tail(ids),
                IF \E k \in 1..Len(acc) : acc[k] = Head(ids) THEN acc
                ELSE Append(acc, Head(ids)))

\* lines 221-232: the explicit ids, then the ids of the input_file items
merged_file_ids(ids, items) ==
    LET files == SelectSeq(items, LAMBDA it : it.type = "input_file")
    IN  Dedupe(ids \o [k \in 1..Len(files) |-> files[k].file_id], <<>>)

RECURSIVE configured_tools(_, _)
\* lines 262-285
configured_tools(ts, merged) ==
    IF ts = <<>> THEN <<>>
    ELSE LET tool == Head(ts)
             rest == configured_tools(Tail(ts), merged)
         IN  IF tool.type = "code_interpreter"
             THEN <<[tool EXCEPT !.container = TRUE, !.file_ids = merged]>> \o rest
             ELSE IF tool.type = "file_search" THEN rest
             ELSE IF tool.type \in {"web_search", "computer_use", "image_generation",
                                    "function"}
                  THEN <<tool>> \o rest
                  ELSE rest

\* lines 290-298: the message items replace the input when there is one
RequestInput(items) ==
    LET msg_items == SelectSeq(items, LAMBDA it : it.type = "message")
    IN  IF msg_items # <<>> THEN msg_items ELSE items

RequestIdle ==
    /\ rpc = "idle"
    /\ builtin_tools = <<>>
    /\ formatted_tools = [is_none |-> TRUE, items |-> <<>>]
    /\ message_content = EmptyStr
    /\ uploaded_ids = <<>>
    /\ input_items = <<>>
    /\ request_data = <<>>

RequestInit ==
    /\ rpc = "convert"
    /\ builtin_tools \in UNION {[1..n -> ToolEntries] : n \in 0..MaxTools}
    /\ formatted_tools = [is_none |-> TRUE, items |-> <<>>]
    /\ message_content \in {EmptyStr, <<"h", "i">>}
    /\ uploaded_ids \in {[k \in 1..n |-> k] : n \in 0..MaxRequestFiles}
    /\ input_items = <<>>
    /\ request_data = <<>>

\* main.py 136-137: "self.convert_tools_format(tools) if tools else None"
ConvertTools ==
    /\ rpc = "convert"
    /\ formatted_tools' =
           IF builtin_tools # <<>>
           THEN [is_none |-> FALSE, items |-> convert_tools_format(builtin_tools)]
           ELSE [is_none |-> TRUE, items |-> <<>>]
    /\ rpc' = "build"
    /\ UNCHANGED <<builtin_tools, message_content, uploaded_ids, input_items, request_data>>
    /\ UNCHANGED notRequest

\* openai_service.py 676-680
BuildInput ==
    /\ rpc = "build"
    /\ input_items' = build_input_from_message(message_content, uploaded_ids)
    /\ rpc' = "create"
    /\ UNCHANGED <<builtin_tools, formatted_tools, message_content, uploaded_ids,
                   request_data>>
    /\ UNCHANGED notRequest

\* create_response with tools (234-315): the request is put together and sent
SendRequest ==
    /\ rpc = "create"
    /\ Truthy(formatted_tools)
    /\ request_data' =
           <<[input |-> RequestInput(input_items),
              tools |-> configured_tools(formatted_tools.items,
                                         merged_file_ids(uploaded_ids, input_items))]>>
    /\ rpc' = "sent"
    /\ UNCHANGED <<builtin_tools, formatted_tools, message_content, uploaded_ids,
                   input_items>>
    /\ UNCHANGED notRequest

\* create_response without tools: nothing is sent (line 318 raises)
RequestNotSent ==
    /\ rpc = "create"
    /\ ~Truthy(formatted_tools)
    /\ rpc' = "raised"
    /\ UNCHANGED <<builtin_tools, formatted_tools, message_content, uploaded_ids,
                   input_items, request_data>>
    /\ UNCHANGED notRequest

RequestNext ==
    \/ ConvertTools
    \/ BuildInput
    \/ SendRequest
    \/ RequestNotSent

\* the tools of the request sent, and its input items of a type
SentTools == request_data[1].tools
SentItems(type) == SelectSeq(request_data[1].input, LAMBDA it : it.type = type)

\* C22 as stated: a request with a code_interpreter tool has no input_file
\* item, whatever the message content, so that no uploaded id travels both
\* as an input_file item and in a container's file list.
C22_NoFileOnBothPaths ==
    (rpc = "sent" /\ \E k \in 1..Len(SentTools) : SentTools[k].type = "code_interpreter") =>
        /\ SentItems("input_file") = <<>>
        /\ \A k \in 1..Len(SentTools) : \A i \in 1..Len(SentTools[k].file_ids) :
              \A j \in 1..Len(request_data[1].input) :
                  ~(request_data[1].input[j].type = "input_file"
                        /\ request_data[1].input[j].file_id = SentTools[k].file_ids[i])

\* with a message that is not empty the request has the message item only,
\* and the uploaded ids travel in the container of the code_interpreter tool
C22_Witness ==
    /\ rpc = "sent"
    /\ message_content # EmptyStr
    /\ Len(uploaded_ids) = 2
    /\ request_data[1].input = <<MessageItem(message_content)>>
    /\ \E k \in 1..Len(SentTools) :
          SentTools[k].type = "code_interpreter" /\ SentTools[k].file_ids = uploaded_ids

\* C38 as stated: in a request sent for a call that uploaded files, every
\* uploaded id is in an input_file item of the input or in the file list of
\* a code_interpreter container, whatever the tools.
C38_EveryUploadDelivered ==
    rpc = "sent" =>
        \A u \in 1..Len(uploaded_ids) :
            \/ \E j \in 1..Len(request_data[1].input) :
                  /\ request_data[1].input[j].type = "input_file"
                  /\ request_data[1].input[j].file_id = uploaded_ids[u]
            \/ \E k \in 1..Len(SentTools) :
                  /\ SentTools[k].type = "code_interpreter"
                  /\ \E i \in 1..Len(SentTools[k].file_ids) :
                        SentTools[k].file_ids[i] = uploaded_ids[u]

\* two files were uploaded for a message that is not empty, under tools
\* without code_interpreter: the request has the message item alone and
\* tools that carry no file
C38_Witness ==
    /\ rpc = "sent"
    /\ message_content # EmptyStr
    /\ Len(uploaded_ids) = 2
    /\ SentTools # <<>>
    /\ \A k \in 1..Len(SentTools) : SentTools[k].type # "code_interpreter"
    /\ request_data[1].input = <<MessageItem(message_content)>>

\* the entries of the configuration that are function tools or named
\* built-in tools other than code_interpreter and file_search, as type and
\* options, in the order of the configuration
PassThroughTools(ts) ==
    LET kept == SelectSeq(ts, LAMBDA tool :
                    \/ tool.type \in {"web_search", "computer_use", "image_generation"}
                    \/ tool.form = "dict" /\ tool.type = "function")
    IN  [k \in 1..Len(kept) |-> [type |-> kept[k].type, options |-> kept[k].options]]

\* C23 as stated: in the request sent every code_interpreter tool has a
\* container with the uploaded ids, in upload order and without duplicates;
\* no tool is a file_search tool; and the other tools are the function tools
\* and named built-in tools of the configuration, in its order, each with the
\* keys it has there.
C23_ToolsOfRequest ==
    rpc = "sent" =>
        /\ \A k \in 1..Len(SentTools) :
              /\ SentTools[k].type # "file_search"
              /\ SentTools[k].type = "code_interpreter" =>
                    SentTools[k].container /\ SentTools[k].file_ids = uploaded_ids
        /\ LET others == SelectSeq(SentTools, LAMBDA tool : tool.type # "code_interpreter")
           IN  [k \in 1..Len(others) |-> [type |-> others[k].type,
                                          options |-> others[k].options]]
                   = PassThroughTools(builtin_tools)

\* a configuration of a code_interpreter string and a function dictionary
\* with its further keys: the request has the first with the two uploaded ids
\* in its container and the second as it is
C23_Witness ==
    /\ rpc = "sent"
    /\ builtin_tools = <<ToolStr("code_interpreter"), ToolDict("function", TRUE)>>
    /\ uploaded_ids = <<1, 2>>
    /\ SentTools = <<[Tool("code_interpreter", FALSE) EXCEPT !.container = TRUE,
                                                          !.file_ids = <<1, 2>>],
                     Tool("function", TRUE)>>

\* ------------------- the background limiter (openai_service.py 115-150, 657-674)
\* a text is the sequence of its characters; the k-th character of the
\* message is k, and the marker that _clip_text_to_token_budget appends,
\* "\n\n[...truncated to fit context window...]\n", is 42 characters 0
Text(n) == [k \in 1..n |-> k]
TruncationMarker == [k \in 1..42 |-> 0]

\* _estimate_tokens_fast (115-121)
estimate_tokens_fast(text) ==
    IF text = <<>> THEN 0 ELSE Max(1, Len(text) \div 4)

\* _get_model_context_window (123-134)
get_model_context_window(m) ==
    IF m = "gpt-5" THEN 128000
    ELSE IF m = "gpt-4" THEN 128000
    ELSE 32000

\* _clip_text_to_token_budget (136-150)
clip_text_keeping_the_tail(text, max_tokens) ==
    IF text = <<>> THEN text
    ELSE IF max_tokens <= 0 THEN <<>>
    ELSE IF estimate_tokens_fast(text) <= max_tokens THEN text
    ELSE LET keep_chars == Max(0, max_tokens * 4)
         IN  SubSeq(text, Len(text) - Min(keep_chars, Len(text)) + 1, Len(text))
                 \o TruncationMarker

clip_text_to_token_budget(text, max_tokens) ==
    IF text = <<>> THEN text
    ELSE IF max_tokens <= 0 THEN <<>>
    ELSE IF estimate_tokens_fast(text) <= max_tokens THEN text
    ELSE LET keep_chars == Max(0, max_tokens * 4)
         IN  SubSeq(text, 1, Min(keep_chars, Len(text))) \o TruncationMarker

\* lines 659-666
allowed_input(m, e) ==
    Max(1024, get_model_context_window(m) - e.completion_budget - e.safety_tokens)
max_bg_tokens(m, e) == Max(0, allowed_input(m, e) - e.trim_margin)

\* the environment: the three margins, and whether int() takes them all
Environments ==
    [completion_budget : {1024, 200000}, safety_tokens : {512},
     trim_margin : {0, 9, 10, 512, 1022, 1023, 1024, 1025, 30462}, parses : BOOLEAN]

\* the lengths of the messages: the short ones, and one that is a token over
\* the floor of allowed_input (1024 tokens of 4 characters)
MessageLengths == (0..MaxChars) \cup {4 * 1024 + 4}

LimiterIdle ==
    /\ lpc = "idle"
    /\ model = "other"
    /\ env = [completion_budget |-> 1024, safety_tokens |-> 512, trim_margin |-> 512,
              parses |-> TRUE]
    /\ original_message = <<>>
    /\ enhanced_user_message = <<>>

LimiterInit ==
    /\ lpc = "limiter"
    /\ model \in {"gpt-5", "gpt-4", "other"}
    /\ env \in Environments
    /\ original_message \in {Text(n) : n \in MessageLengths}
    /\ enhanced_user_message = original_message

\* lines 667-672: the estimate is over the budget
LimiterClips ==
    /\ lpc = "limiter"
    /\ env.parses
    /\ estimate_tokens_fast(enhanced_user_message) > max_bg_tokens(model, env)
    /\ enhanced_user_message' =
           clip_text_to_token_budget(enhanced_user_message, max_bg_tokens(model, env))
    /\ lpc' = "built"
    /\ UNCHANGED <<model, env, original_message>>
    /\ UNCHANGED notLimiter

\* line 668, the condition is false
LimiterKeeps ==
    /\ lpc = "limiter"
    /\ env.parses
    /\ ~(estimate_tokens_fast(enhanced_user_message) > max_bg_tokens(model, env))
    /\ lpc' = "built"
    /\ UNCHANGED <<model, env, original_message, enhanced_user_message>>
    /\ UNCHANGED notLimiter

\* lines 660-662 and 673-674: int() raises on a margin that is no integer,
\* and the except clause passes
LimiterSkipped ==
    /\ lpc = "limiter"
    /\ ~env.parses
    /\ lpc' = "built"
    /\ UNCHANGED <<model, env, original_message, enhanced_user_message>>
    /\ UNCHANGED notLimiter

LimiterNext ==
    \/ LimiterClips
    \/ LimiterKeeps
    \/ LimiterSkipped

\* C25 as stated: with the estimate max(1, chars div 4) and the margins
\* integers, a message whose estimate is over the budget is sent as its
\* first budget * 4 characters followed by the marker, a message whose
\* estimate is within the budget is sent as it is, and the budget is not
\* negative.
C25_Clipping ==
    LET budget == max_bg_tokens(model, env)
        estimate == Max(1, Len(original_message) \div 4)
    IN  (lpc = "built" /\ env.parses) =>
            /\ budget >= 0
            /\ estimate > budget =>
                  enhanced_user_message =
                      SubSeq(original_message, 1, Min(budget * 4, Len(original_message)))
                          \o TruncationMarker
            /\ estimate <= budget => enhanced_user_message = original_message

\* C25, amended: the estimate is 0 for the empty message and
\* max(1, chars div 4) otherwise; with integer margins the budget is not
\* negative; a message whose estimate is over a budget of at least one token
\* is sent as its first budget * 4 characters followed by the marker; a
\* message that is not empty, under a budget of 0, is sent as the empty
\* message, without marker; a message whose estimate is within the budget
\* is sent as it is, and so is every message when a margin is no integer.
C25_ClipsToPositiveBudget ==
    LET budget == max_bg_tokens(model, env)
        estimate == IF original_message = <<>> THEN 0
                    ELSE Max(1, Len(original_message) \div 4)
    IN  /\ lpc = "limiter" => enhanced_user_message = original_message
        /\ (lpc = "built" /\ ~env.parses) => enhanced_user_message = original_message
        /\ (lpc = "built" /\ env.parses) =>
              /\ budget >= 0
              /\ (estimate > budget /\ budget >= 1) =>
                    /\ enhanced_user_message =
                           SubSeq(original_message, 1, budget * 4) \o TruncationMarker
                    /\ budget * 4 < Len(original_message)
              /\ (estimate > budget /\ budget = 0) => enhanced_user_message = <<>>
              /\ estimate <= budget => enhanced_user_message = original_message

\* a message of twelve characters under a budget of two tokens went out as
\* its first eight characters and the marker
C25_Witness ==
    /\ lpc = "built"
    /\ env.parses
    /\ max_bg_tokens(model, env) = 2
    /\ Len(original_message) = 12
    /\ enhanced_user_message = Text(8) \o TruncationMarker

\* C37 as stated: after clipping, the estimate (chars div 4) of the message
\* that is sent, marker included, does not exceed the allowed input budget.
C37_ClippedWithinAllowedInput ==
    (lpc = "built" /\ env.parses /\ enhanced_user_message # original_message) =>
        Len(enhanced_user_message) \div 4 <= allowed_input(model, env)

\* with a trim margin of 0 a message of 4100 characters, estimated at 1025
\* tokens, was clipped for an allowed input of 1024 tokens to 4096
\* characters and the marker: 4138 characters, estimated at 1034 tokens
C37_Witness ==
    /\ lpc = "built"
    /\ env.parses
    /\ env.trim_margin = 0
    /\ allowed_input(model, env) = 1024
    /\ Len(original_message) = 4100
    /\ enhanced_user_message = Text(4096) \o TruncationMarker
    /\ Len(enhanced_user_message) \div 4 = 1034

\* --------------------- the path of a generated file (openai_service.py 702-721)
\* a path is the sequence of the segments its separators divide it into:
\* "a/b" is <<"a", "b">>, "/etc/x" is <<"", "etc", "x">>, "a/" is <<"a", "">>
\* and the empty string is <<"">>
Segments == {"", ".", "..", "etc", "out.xlsx"}
Filenames == UNION {[1..n -> Segments] : n \in 1..MaxSegments}

\* os.path.basename: what follows the last separator
os_path_basename_unsanitized(path) == path

os_path_basename(path) == <<path[Len(path)]>>

\* a path that starts at the root
IsAbsolute(path) == Len(path) > 1 /\ path[1] = ""

\* os.path.join(a, b): b alone when it is absolute
os_path_join(a, b) == IF IsAbsolute(b) THEN b ELSE a \o b

\* f"output_{file_id}.bin" (line 707)
FallbackName(file_id) ==
    IF file_id = "cfile_1" THEN <<"output_cfile_1.bin">> ELSE <<"output_file-2.bin">>

\* lines 705-707
safe_filename(info) ==
    LET base == os_path_basename(info.filename)
    IN  IF base = <<"">> THEN FallbackName(info.file_id) ELSE base

\* lines 709-713
OutputPath(dir, info) ==
    IF dir.configured THEN os_path_join(dir.path, safe_filename(info))
    ELSE safe_filename(info)

\* open(output_path, 'wb') raises on a path that names a directory
NamesDirectory(path) == path[Len(path)] \in {"", ".", ".."}

RECURSIVE Resolve(_, _)
\* the directory that a sequence of segments leads to from the directory
\* at, ".." and "." resolved; <<>> is the root
Resolve(segs, at) ==
    IF segs = <<>> THEN at
    ELSE LET seg == Head(segs)
         IN  Resolve(Tail(segs),
                     IF seg \in {"", "."} THEN at
                     ELSE IF seg = ".." THEN SubSeq(at, 1, Max(0, Len(at) - 1))
                     ELSE Append(at, seg))

\* the directory a path lies in, the working directory being <<"cwd">>
DirectoryOf(path) ==
    Resolve(SubSeq(path, 1, Len(path) - 1), IF IsAbsolute(path) THEN <<>> ELSE <<"cwd">>)

OutputIdle ==
    /\ opc = "idle"
    /\ cited_file = [file_id |-> "cfile_1", filename |-> <<"">>]
    /\ output_dir = [configured |-> FALSE, path |-> <<>>]
    /\ output_path = <<>>
    /\ disk = {}

OutputInit ==
    /\ opc = "name"
    /\ cited_file \in [file_id : {"cfile_1", "file-2"}, filename : Filenames]
    /\ output_dir \in {[configured |-> FALSE, path |-> <<>>],
                       [configured |-> TRUE, path |-> <<"data", "out">>]}
    /\ output_path = <<>>
    /\ disk = {}

\* lines 705-713
MakeOutputPath ==
    /\ opc = "name"
    /\ output_path' = OutputPath(output_dir, cited_file)
    /\ opc' = "download"
    /\ UNCHANGED <<cited_file, output_dir, disk>>
    /\ UNCHANGED notOutput

\* download_file fetched the content and wrote it (442-446, 463-467)
DownloadWrites ==
    /\ opc = "download"
    /\ ~NamesDirectory(output_path)
    /\ disk' = disk \cup {output_path}
    /\ opc' = "listed"
    /\ UNCHANGED <<cited_file, output_dir, output_path>>
    /\ UNCHANGED notOutput

\* download_file returned False: the fetch failed, or open() raised
DownloadReturnsFalse ==
    /\ opc = "download"
    /\ opc' = "skipped"
    /\ UNCHANGED <<cited_file, output_dir, output_path, disk>>
    /\ UNCHANGED notOutput

OutputNext ==
    \/ MakeOutputPath
    \/ DownloadWrites
    \/ DownloadReturnsFalse

\* C26 as stated: with an output directory configured, a file that is
\* written lies directly in that directory, and the last component of its
\* path is the base name of the filename the service supplied.
C26_WrittenInsideOutputDir ==
    output_dir.configured =>
        \A path \in disk :
            /\ DirectoryOf(path) = <<"cwd">> \o output_dir.path
            /\ SubSeq(path, 1, Len(path) - 1) = output_dir.path
            /\ path[Len(path)] = cited_file.filename[Len(cited_file.filename)]

\* C26, amended: with an output directory configured, a file that is written
\* lies directly in that directory, and the last component of its path is
\* the base name of the filename the service supplied, or the name made of
\* the file id when that base name is empty; under a base name "." or ".."
\* nothing is written.
C26_WrittenInsideOutputDirOrFallback ==
    LET base == cited_file.filename[Len(cited_file.filename)]
    IN  /\ output_dir.configured =>
              \A path \in disk :
                  /\ DirectoryOf(path) = <<"cwd">> \o output_dir.path
                  /\ SubSeq(path, 1, Len(path) - 1) = output_dir.path
                  /\ path[Len(path)] = (IF base = "" THEN FallbackName(cited_file.file_id)[1]
                                        ELSE base)
        /\ base \in {".", ".."} => disk = {}
        /\ opc \in {"name", "download", "skipped"} => disk = {}

\* the service named the file "../../etc" and it was written as "etc" in the
\* output directory
C26_Witness ==
    /\ opc = "listed"
    /\ output_dir.configured
    /\ cited_file.filename = <<"..", "..", "etc">>
    /\ disk = {<<"data", "out", "etc">>}

\* ------------------- the rows selected for upload (push_merged_items.py 187-203)
\* the rows put on the wire so far, batch after batch
DispatchedRows == ConcatAll(dispatched)

\* C31 as stated: every row of a dispatched batch has a non-empty keyword,
\* under every send policy.
C31_KeywordNeverEmpty ==
    \A i \in 1..Len(DispatchedRows) : DispatchedRows[i].keyword # EmptyStr

\* C31, amended: every row of a dispatched batch has a non-empty keyword under
\* require_all_fields without include_all_rows; under the default policy it
\* has a non-empty keyword, U_line or Item; under include_all_rows the rows
\* dispatched are the rows of the sheet, whatever their keyword.
C31_KeywordByPolicy ==
    /\ \A i \in 1..Len(DispatchedRows) :
          /\ (args.require_all_fields /\ ~args.include_all_rows) =>
                 DispatchedRows[i].keyword # EmptyStr
          /\ (~args.require_all_fields /\ ~args.include_all_rows) =>
                 \/ DispatchedRows[i].keyword # EmptyStr
                 \/ DispatchedRows[i].U_line # EmptyStr
                 \/ DispatchedRows[i].Item # EmptyStr
    /\ (args.include_all_rows /\ dispatched # <<>>) =>
          /\ Len(rows) = Len(push_file.data)
          /\ DispatchedRows = SubSeq(out, 1, Len(DispatchedRows))

\* under the default policy a row without keyword, with a U_line, was put on
\* the wire
C31_Witness ==
    /\ ~args.require_all_fields
    /\ ~args.include_all_rows
    /\ \E i \in 1..Len(DispatchedRows) :
          /\ DispatchedRows[i].keyword = EmptyStr
          /\ DispatchedRows[i].U_line # EmptyStr

\* ------------------- the conversations of a batch run (main.py 228-255)
\* the jobs whose _process_one call was made
CalledJobs == {i \in 1..Len(job) : job[i].st \in {"running", "finished", "collected"}}

\* C30: in a batch run every job is submitted with no conversation id, and
\* no two jobs use the same conversation, whatever use_conversation and the
\* worker count: with use_conversation a job that returns has used a
\* conversation created for it alone, without it no job uses any.
C30_NoSharedConversation ==
    /\ Len(job_conversation) = Len(job)
    /\ \A i \in CalledJobs : job_conversation[i].submitted = 0
    /\ \A i, j \in 1..Len(job) :
          (i # j /\ job_conversation[i].used # 0) =>
              job_conversation[i].used # job_conversation[j].used
    /\ \A i \in 1..Len(job) :
          /\ job_conversation[i].used \in {0, FreshConversation(i)}
          /\ ~batch_use_conversation => job_conversation[i].used = 0
          /\ (batch_use_conversation /\ job[i].out = "returned") =>
                 job_conversation[i].used # 0
          /\ i \notin CalledJobs => job_conversation[i].used = 0

\* two jobs run side by side in the pool, each in a conversation of its own,
\* after an earlier job of the run has returned in a third one
C30_Witness ==
    /\ bpc = "as_completed"
    /\ batch_use_conversation
    /\ Workers >= 2
    /\ \E i, j, k \in 1..Len(job) :
          /\ i # j
          /\ job[i].st = "running" /\ job[j].st = "running"
          /\ job_conversation[i].used # 0 /\ job_conversation[j].used # 0
          /\ job[k].out = "returned" /\ job_conversation[k].used # 0

\* ------------------- the retries of a batch (push_merged_items.py 101-123)
\* a PUT went out in this step
PutWentOut == attempt' # attempt \/ batch_idx' # batch_idx

\* C29 as stated: a batch is attempted at most retries + 1 times; it is
\* attempted again only after a connection failure or a response with status
\* 429, 500, 502, 503 or 504; any other response with a status >= 400 ends
\* the batch in failure at once; and the first attempt of a batch is made
\* only when the attempts of the batch before are over.
C29_RetryPolicy ==
    /\ [][attempt' <= args.retries + 1]_vars
    /\ [][(attempt' = attempt + 1 /\ batch_idx' = batch_idx) =>
             \/ wire.kind = "conn_error"
             \/ wire.kind = "response" /\ wire.status \in {429, 500, 502, 503, 504}]_vars
    /\ [][(/\ PutWentOut
           /\ wire'.kind = "response"
           /\ wire'.status >= 400
           /\ wire'.status \notin {429, 500, 502, 503, 504}) =>
             /\ ppc' \in {"loop", "error"}
             /\ msg' = [batch |-> batch_idx', text |-> "HTTP", status |-> wire'.status]
             /\ batches_sent' = batches_sent]_vars
    /\ [][batch_idx' # batch_idx =>
             /\ ppc = "loop"
             /\ batch_idx' = batch_idx + 1
             /\ attempt' = 1]_vars

\* a batch was answered 413 with a Retry-After header, and is attempted again
C29_Witness ==
    /\ ppc = "retry"
    /\ wire.kind = "response"
    /\ wire.status = 413
    /\ wire.retry_after
    /\ attempt <= args.retries
    /\ batches_sent = 0

\* ------------- _build_column_map (push_merged_items.py 50-84,
\* ------------- merge_assistant2_output.py 41-76), called on any headers
\* an alias list with a further alias that is no spelling of keyword
MergeKeywordCandidatesWithNotes ==
    Append(keyword_candidates, <<"n", "o", "t", "e", "s">>)

\* merge_assistant2_output.py lists one alias more
MergeKeywordCandidates ==
    Append(keyword_candidates, <<"k", "e", "y", "w", "o", "r", " ", "d">>)

\* _build_column_map of merge_assistant2_output.py
MergeBuildColumnMap(columns) ==
    LET keyword_col == Pick(MergeKeywordCandidates, columns)
        line_col == Pick(line_candidates, columns)
        item_col == Pick(item_candidates, columns)
        picked == {keyword_col, line_col, item_col} \ {NoCol, EmptyStr}
    IN  [c \in picked |-> IF c = item_col THEN ItemName
                          ELSE IF c = line_col THEN ULineName
                          ELSE KeywordName]

\* the headers a sheet may carry
HeaderChoices ==
    {<<"k", "e", "y", "w", "o", "r", "d">>,
     <<"K", "e", "y", " ", "W", "o", "r", "d">>,
     <<" ", "K", "E", "Y", "W">>,
     <<"L", "i", "n", "e", " ">>,
     <<"i", "t", "e", "m">>,
     <<" ", "I", "T", "E", "M", "S">>,
     <<"N", "o", "t", "e", "s">>,
     EmptyStr}
HeaderLists == UNION {[1..n -> HeaderChoices] : n \in 0..MaxHeaders}
EmptyMapping == [c \in {} |-> KeywordName]

ColumnMapIdle ==
    /\ kpc = "idle"
    /\ script = "push"
    /\ existing = <<>>
    /\ mapping = EmptyMapping

ColumnMapInit ==
    /\ kpc = "call"
    /\ script \in {"push", "merge"}
    /\ existing \in HeaderLists
    /\ mapping = EmptyMapping

\* push_merged_items._build_column_map(columns)
PushBuildColumnMap ==
    /\ kpc = "call"
    /\ script = "push"
    /\ mapping' = BuildColumnMap(existing)
    /\ kpc' = "returned"
    /\ UNCHANGED <<script, existing>>
    /\ UNCHANGED notColumnMap

\* merge_assistant2_output._build_column_map(columns)
MergeBuildColumnMapCall ==
    /\ kpc = "call"
    /\ script = "merge"
    /\ mapping' = MergeBuildColumnMap(existing)
    /\ kpc' = "returned"
    /\ UNCHANGED <<script, existing>>
    /\ UNCHANGED notColumnMap

ColumnMapNext ==
    \/ PushBuildColumnMap
    \/ MergeBuildColumnMapCall

\* the aliases the called script lists for a canonical column
CandidatesOf(canonical) ==
    IF canonical = KeywordName
    THEN (IF script = "merge" THEN MergeKeywordCandidates ELSE keyword_candidates)
    ELSE IF canonical = ULineName THEN line_candidates
    ELSE item_candidates

\* the header matches the alias: equal normal forms
Matches(header, alias) == NormalizeCol(header) = NormalizeCol(alias)

\* some header of the sheet matches the alias
AliasFound(alias) == \E i \in 1..Len(existing) : Matches(existing[i], alias)

\* C27: the call always returns; a header is mapped to a canonical column only
\* if its normal form is that of one of the column's aliases; the header
\* mapped to a canonical column matches the earliest alias of the list that
\* any header matches; at most one header is mapped to each canonical column;
\* and a canonical column none of whose aliases is matched is absent from the
\* mapping.
C27_ColumnMap ==
    /\ kpc \in {"call", "returned"}
    /\ kpc = "call" => mapping = EmptyMapping
    /\ kpc = "returned" =>
          /\ \A h \in DOMAIN mapping :
                /\ h \in SeqRange(existing)
                /\ mapping[h] \in SeqRange(TARGET_COLUMNS)
                /\ \E k \in 1..Len(CandidatesOf(mapping[h])) :
                      Matches(h, CandidatesOf(mapping[h])[k])
                /\ \A j \in 1..Len(CandidatesOf(mapping[h])) :
                      AliasFound(CandidatesOf(mapping[h])[j]) =>
                          \E k \in 1..j : Matches(h, CandidatesOf(mapping[h])[k])
          /\ \A h1, h2 \in DOMAIN mapping : mapping[h1] = mapping[h2] => h1 = h2
          /\ \A c \in SeqRange(TARGET_COLUMNS) :
                (\A k \in 1..Len(CandidatesOf(c)) : ~AliasFound(CandidatesOf(c)[k])) =>
                    \A h \in DOMAIN mapping : mapping[h] # c

\* the sheet carries " KEYW" before "Key Word" and no item column: the later
\* header, which matches the earlier alias, is the one mapped to keyword,
\* and Item is absent from the mapping
C27_Witness ==
    /\ kpc = "returned"
    /\ existing = <<<<" ", "K", "E", "Y", "W">>,
                    <<"K", "e", "y", " ", "W", "o", "r", "d">>,
                    <<"L", "i", "n", "e", " ">>>>
    /\ DOMAIN mapping = {<<"K", "e", "y", " ", "W", "o", "r", "d">>, <<"L", "i", "n", "e", " ">>}
    /\ mapping[<<"K", "e", "y", " ", "W", "o", "r", "d">>] = KeywordName
    /\ mapping[<<"L", "i", "n", "e", " ">>] = ULineName

\* what the _build_column_map of the other script returns on the headers
\* the called one was given
OtherBuildColumnMap ==
    IF script = "push" THEN MergeBuildColumnMap(existing) ELSE BuildColumnMap(existing)

\* C40: on every sequence of headers the _build_column_map of the merge
\* script and the one of the upload script return the same mapping: the
\* alias the merge script has in addition, "keywor d", is normalised to
\* "keyword", which both lists hold as their first alias. What either
\* script's function returned is what the other's returns on those headers.
C40_SameColumnMap ==
    kpc = "returned" => mapping = OtherBuildColumnMap

\* the merge script was called on the headers "Key Word" and "Line ", whose
\* first is normalised to "keyword" as the alias "keywor d" is, and returned
\* what the upload script returns
C40_Witness ==
    /\ kpc = "returned"
    /\ script = "merge"
    /\ existing = <<<<"K", "e", "y", " ", "W", "o", "r", "d">>, <<"L", "i", "n", "e", " ">>>>
    /\ DOMAIN mapping = {existing[1], existing[2]}
    /\ mapping[existing[1]] = KeywordName
    /\ mapping[existing[2]] = ULineName
    /\ mapping = OtherBuildColumnMap

\* ---------------------------------- merge_folder (merge_assistant2_output.py)
\* the sheets a folder may hold: the columns carry the fields of the raw rows
\* under the labels given
MergeHeaders ==
    {<<[name |-> <<" ", "I", "T", "E", "M", "S">>, field |-> 3],
       [name |-> <<"K", "e", "y", " ", "W", "o", "r", "d">>, field |-> 2],
       [name |-> <<"N", "o", "t", "e", "s">>, field |-> 0]>>,
     <<[name |-> <<"k", "e", "y", "w", "r", "d">>, field |-> 2],
       [name |-> <<"L", "i", "n", "e", " ">>, field |-> 3],
       [name |-> <<"i", "t", "e", "m">>, field |-> 1]>>,
     <<[name |-> <<"k", "e", "y", "w">>, field |-> 3]>>,
     <<[name |-> KeywordName, field |-> 1],
       [name |-> <<"K", "e", "y", "w", "o", "r", "d">>, field |-> 1],
       [name |-> ULineName, field |-> 2], [name |-> ItemName, field |-> 3]>>,
     <<[name |-> <<"N", "o", "t", "e", "s">>, field |-> 0]>>}

MergeFiles ==
    {BrokenFile}
        \cup {ExcelFile(h, raws) : h \in MergeHeaders, raws \in SeqsUpTo(RawRows, MaxMergeRows)}

NoDataset == [columns |-> <<>>, data |-> <<>>]

\* lines 123-133, one column of out: "" where the sheet has no column of that
\* label, else renamed[c].fillna("").astype(str)
MergeOutColumnUnfilled(file, renamed, c) ==
    IF Positions(renamed, c) = {} THEN [r \in 1..Len(file.data) |-> NaN]
    ELSE LET i == CHOOSE i \in Positions(renamed, c) : TRUE
         IN  [r \in 1..Len(file.data) |-> file.data[r][i]]

MergeOutColumn(file, renamed, c) ==
    IF Positions(renamed, c) = {} THEN [r \in 1..Len(file.data) |-> EmptyStr]
    ELSE LET i == CHOOSE i \in Positions(renamed, c) : TRUE
         IN  [r \in 1..Len(file.data) |-> FillNa(file.data[r][i])]

\* df.rename(columns=col_map) of the sheet
MergeRenamed(file) == Rename(file.columns, MergeBuildColumnMap(file.columns))

\* renamed[c] is a DataFrame when several columns carry the label c, and
\* out[c] = <DataFrame of several columns> raises ValueError
AssignmentRaises(file) ==
    \E c \in SeqRange(TARGET_COLUMNS) : Cardinality(Positions(MergeRenamed(file), c)) > 1

\* line 135: out["keyword"].replace({"nan": ""}).astype(str).str.strip().eq("").all()
KeywordAllBlank(file) ==
    LET keyword == MergeOutColumn(file, MergeRenamed(file), KeywordName)
    IN  \A r \in 1..Len(keyword) :
            Strip(IF keyword[r] = NanToken THEN EmptyStr ELSE keyword[r]) = EmptyStr

\* lines 121-140: out, after out[c].replace({"nan": "", "None": ""}).astype(str)
MergeOut(file) ==
    LET renamed == MergeRenamed(file)
        column(k) == MergeOutColumn(file, renamed, TARGET_COLUMNS[k])
    IN  [columns |-> TARGET_COLUMNS,
         data |-> [r \in 1..Len(file.data) |->
                      [k \in 1..Len(TARGET_COLUMNS) |-> ReplaceTokens(column(k)[r])]]]

\* what the loop body does with each sheet, computed once
MergeTable ==
    [f \in MergeFiles |->
        IF ~f.readable \/ f.data = <<>> THEN [raises |-> FALSE, blank |-> FALSE, out |-> NoDataset]
        ELSE [raises |-> AssignmentRaises(f), blank |-> KeywordAllBlank(f), out |-> MergeOut(f)]]

RECURSIVE ConcatColumns(_)
\* pd.concat, the columns: the union of the frames' labels in order of first
\* appearance
ConcatColumns(frames) ==
    IF frames = <<>> THEN <<>>
    ELSE LET before == ConcatColumns(SubSeq(frames, 1, Len(frames) - 1))
             last == frames[Len(frames)].columns
         IN  before \o SelectSeq(last, LAMBDA label : label \notin SeqRange(before))

RECURSIVE ConcatData(_, _)
\* pd.concat, the rows: a frame without one of the columns gets NaN there
ConcatData(frames, columns) ==
    IF frames = <<>> THEN <<>>
    ELSE LET frame == Head(frames)
             cell(row, label) ==
                 IF Positions(frame.columns, label) = {} THEN NaN
                 ELSE row[CHOOSE i \in Positions(frame.columns, label) : TRUE]
         IN  [r \in 1..Len(frame.data) |->
                 [k \in 1..Len(columns) |-> cell(frame.data[r], columns[k])]]
             \o ConcatData(Tail(frames), columns)

\* a concat that keeps the first frame only
pd_concat_first(frames) ==
    [columns |-> ConcatColumns(<<Head(frames)>>),
     data |-> ConcatData(<<Head(frames)>>, ConcatColumns(<<Head(frames)>>))]

\* pd.concat(merged_frames, ignore_index=True)
pd_concat(frames) ==
    [columns |-> ConcatColumns(frames), data |-> ConcatData(frames, ConcatColumns(frames))]

MergeIdle ==
    /\ mgpc = "idle"
    /\ folder_exists = FALSE
    /\ merge_files = <<>>
    /\ file_idx = 0
    /\ merged_frames = <<>>
    /\ merged_of = <<>>
    /\ skipped = <<>>
    /\ merged_df = NoDataset
    /\ merge_error = "none"

\* merge_folder is called on a folder
MergeInit ==
    /\ mgpc = "start"
    /\ folder_exists \in BOOLEAN
    /\ merge_files \in UNION {[1..n -> MergeFiles] : n \in 0..MaxMergeFiles}
    /\ ~folder_exists => merge_files = <<>>
    /\ file_idx = 0
    /\ merged_frames = <<>>
    /\ merged_of = <<>>
    /\ skipped = <<>>
    /\ merged_df = NoDataset
    /\ merge_error = "none"

\* raise SystemExit(...), or an exception that nothing catches
MergeAbort(reason) ==
    /\ mgpc' = "error"
    /\ merge_error' = reason
    /\ UNCHANGED <<folder_exists, merge_files, file_idx, merged_frames, merged_of, skipped, merged_df>>
    /\ UNCHANGED notMerge

\* lines 99-105
MergeFolderMissing ==
    /\ mgpc = "start"
    /\ ~folder_exists
    /\ MergeAbort("Folder not found or not a directory")

MergeNoExcelFiles ==
    /\ mgpc = "start"
    /\ folder_exists
    /\ merge_files = <<>>
    /\ MergeAbort("No Excel files found")

MergeStartsLoop ==
    /\ mgpc = "start"
    /\ folder_exists
    /\ merge_files # <<>>
    /\ mgpc' = "loop"
    /\ UNCHANGED <<folder_exists, merge_files, file_idx, merged_frames, merged_of, skipped,
                   merged_df, merge_error>>
    /\ UNCHANGED notMerge

\* the sheet the loop is at
file_path == merge_files[file_idx + 1]

\* skipped.append((file_path, reason)); continue
MergeSkip(reason) ==
    /\ skipped' = Append(skipped, <<file_idx + 1, reason>>)
    /\ file_idx' = file_idx + 1
    /\ UNCHANGED <<mgpc, folder_exists, merge_files, merged_frames, merged_of, merged_df, merge_error>>
    /\ UNCHANGED notMerge

\* lines 111-115
MergeReadFailed ==
    /\ mgpc = "loop"
    /\ file_idx < Len(merge_files)
    /\ ~file_path.readable
    /\ MergeSkip("read failed")

\* lines 117-119
MergeEmptySheet ==
    /\ mgpc = "loop"
    /\ file_idx < Len(merge_files)
    /\ file_path.readable
    /\ file_path.data = <<>>
    /\ MergeSkip("empty sheet")

\* lines 128-133, with two columns of one canonical label
MergeAssignmentRaises ==
    /\ mgpc = "loop"
    /\ file_idx < Len(merge_files)
    /\ file_path.readable
    /\ file_path.data # <<>>
    /\ MergeTable[file_path].raises
    /\ MergeAbort("ValueError")

\* lines 135-137
MergeMissingKeyword ==
    /\ mgpc = "loop"
    /\ file_idx < Len(merge_files)
    /\ file_path.readable
    /\ file_path.data # <<>>
    /\ ~MergeTable[file_path].raises
    /\ MergeTable[file_path].blank
    /\ MergeSkip("missing keyword column")

\* lines 121-142: merged_frames.append(out)
MergeAppendsFrame ==
    /\ mgpc = "loop"
    /\ file_idx < Len(merge_files)
    /\ file_path.readable
    /\ file_path.data # <<>>
    /\ ~MergeTable[file_path].raises
    /\ ~MergeTable[file_path].blank
    /\ merged_frames' = Append(merged_frames, MergeTable[file_path].out)
    /\ merged_of' = Append(merged_of, file_idx + 1)
    /\ file_idx' = file_idx + 1
    /\ UNCHANGED <<mgpc, folder_exists, merge_files, skipped, merged_df, merge_error>>
    /\ UNCHANGED notMerge

\* lines 144-146
MergeNoValidFiles ==
    /\ mgpc = "loop"
    /\ file_idx = Len(merge_files)
    /\ merged_frames = <<>>
    /\ MergeAbort("No valid chunk files to merge")

\* lines 148-158: pd.concat and to_excel
MergeWrites ==
    /\ mgpc = "loop"
    /\ file_idx = Len(merge_files)
    /\ merged_frames # <<>>
    /\ merged_df' = pd_concat(merged_frames)
    /\ mgpc' = "written"
    /\ UNCHANGED <<folder_exists, merge_files, file_idx, merged_frames, merged_of, skipped,
                   merge_error>>
    /\ UNCHANGED notMerge

MergeNext ==
    \/ MergeFolderMissing
    \/ MergeNoExcelFiles
    \/ MergeStartsLoop
    \/ MergeReadFailed
    \/ MergeEmptySheet
    \/ MergeAssignmentRaises
    \/ MergeMissingKeyword
    \/ MergeAppendsFrame
    \/ MergeNoValidFiles
    \/ MergeWrites

\* the aliases merge_assistant2_output.py lists for a canonical column
MergeAliases(canonical) ==
    IF canonical = KeywordName THEN MergeKeywordCandidates
    ELSE IF canonical = ULineName THEN line_candidates
    ELSE item_candidates

\* no header of the sheet has the normal form of an alias of the column
ColumnMissingFrom(file, canonical) ==
    \A i \in 1..Len(file.columns), k \in 1..Len(MergeAliases(canonical)) :
        NormalizeCol(file.columns[i]) # NormalizeCol(MergeAliases(canonical)[k])

\* the positions of the canonical columns each sheet lacks, computed once
MissingColumns ==
    [f \in MergeFiles |->
        {k \in 1..Len(TARGET_COLUMNS) : ColumnMissingFrom(f, TARGET_COLUMNS[k])}]

RECURSIVE RowsBefore(_)
\* the number of rows of the sheets merged before the n-th
RowsBefore(n) ==
    IF n <= 1 THEN 0
    ELSE RowsBefore(n - 1) + Len(merge_files[merged_of[n - 1]].data)

\* the rows of the dataset that come from the n-th merged sheet
RowsOfFrame(n) ==
    SubSeq(merged_df.data, RowsBefore(n) + 1, RowsBefore(n + 1))

\* C28: a dataset is written only by a merge that returns, and a written
\* dataset has exactly the columns keyword, U_line, Item in this order; it
\* has one row for each row of each merged sheet, sheet after sheet; the rows
\* of a sheet that lacks a canonical column hold the empty string in that
\* column; and no cell is null or the text 'nan' or 'None'.
C28_MergedDataset ==
    /\ mgpc # "written" => merged_df = NoDataset
    /\ mgpc = "written" =>
          /\ merged_df.columns = <<KeywordName, ULineName, ItemName>>
          /\ merged_of # <<>>
          /\ Len(merged_df.data) = RowsBefore(Len(merged_of) + 1)
          /\ \A r \in 1..Len(merged_df.data) :
                /\ Len(merged_df.data[r]) = 3
                /\ \A k \in 1..3 : merged_df.data[r][k] \notin {NaN, NanToken, NoneToken}
          /\ \A n \in 1..Len(merged_of) :
                LET of_frame == RowsOfFrame(n)
                IN  \A k \in MissingColumns[merge_files[merged_of[n]]] :
                        \A r \in 1..Len(of_frame) : of_frame[r][k] = EmptyStr

\* a dataset was written from a sheet that has no U_line column and an Item
\* cell 'nan', and from a sheet with empty cells, after another sheet was
\* skipped
C28_Witness ==
    /\ mgpc = "written"
    /\ \E n \in 1..Len(merged_of) :
          LET file == merge_files[merged_of[n]]
          IN  /\ MissingColumns[file] = {2}
              /\ \E r \in 1..Len(file.data) : NanToken \in SeqRange(file.data[r])
              /\ \A r \in 1..Len(RowsOfFrame(n)) : RowsOfFrame(n)[r][2] = EmptyStr
    /\ \E n \in 1..Len(merged_of) :
          \E r \in 1..Len(merge_files[merged_of[n]].data) :
              NaN \in SeqRange(merge_files[merged_of[n]].data[r])
    /\ Len(merged_df.data) >= 1

RECURSIVE SumRows(_)
\* the rows of the sheets of files, added up
SumRows(files) ==
    IF files = <<>> THEN 0 ELSE Len(Head(files).data) + SumRows(Tail(files))

\* the i-th file is one merge_folder does not skip: it can be read, has
\* rows, and its keyword column has a cell that is not blank
MergesFile(i) ==
    /\ merge_files[i].readable
    /\ merge_files[i].data # <<>>
    /\ ~MergeTable[merge_files[i]].blank

DownloadJobs == {1, 2}

\* the filenames a response cites: no more than two segments
CitedFilenames == {f \in Filenames : Len(f) <= 2}

\* the file id the service gave the file of job i: ids are unique
CitedFileId(i) == IF i = 1 THEN "cfile_1" ELSE "file-2"

DownloadsIdle ==
    /\ job_pc = <<>>
    /\ job_cited = <<>>
    /\ batch_output_dir = [configured |-> FALSE, path |-> <<>>]
    /\ job_output_path = <<>>
    /\ local_files = {}
    /\ written = <<>>

\* process_batch hands its one output_dir to every job (main.py 248)
DownloadsInit ==
    /\ job_pc = [i \in DownloadJobs |-> "name"]
    /\ job_cited \in [DownloadJobs -> [file_id : {"cfile_1", "file-2"}, filename : CitedFilenames]]
    /\ \A i \in DownloadJobs : job_cited[i].file_id = CitedFileId(i)
    /\ batch_output_dir \in {[configured |-> FALSE, path |-> <<>>],
                             [configured |-> TRUE, path |-> <<"data", "out">>]}
    /\ job_output_path = [i \in DownloadJobs |-> <<>>]
    /\ local_files = {}
    /\ written = <<>>

\* lines 705-713 in job i
JobMakesOutputPath(i) ==
    /\ job_pc[i] = "name"
    /\ job_output_path' = [job_output_path EXCEPT ![i] = OutputPath(batch_output_dir, job_cited[i])]
    /\ job_pc' = [job_pc EXCEPT ![i] = "download"]
    /\ UNCHANGED <<job_cited, batch_output_dir, local_files, written>>
    /\ UNCHANGED notDownloads

\* open(output_path, 'wb') and write (442-446, 463-467) in job i: the file
\* at that path, whoever wrote it, is replaced
JobDownloadWrites(i) ==
    /\ job_pc[i] = "download"
    /\ ~NamesDirectory(job_output_path[i])
    /\ local_files' = {f \in local_files : f.path # job_output_path[i]}
                          \cup {[path |-> job_output_path[i], job |-> i]}
    /\ written' = Append(written, [path |-> job_output_path[i], job |-> i])
    /\ job_pc' = [job_pc EXCEPT ![i] = "listed"]
    /\ UNCHANGED <<job_cited, batch_output_dir, job_output_path>>
    /\ UNCHANGED notDownloads

\* download_file returned False in job i
JobDownloadReturnsFalse(i) ==
    /\ job_pc[i] = "download"
    /\ job_pc' = [job_pc EXCEPT ![i] = "skipped"]
    /\ UNCHANGED <<job_cited, batch_output_dir, job_output_path, local_files, written>>
    /\ UNCHANGED notDownloads

DownloadsNext ==
    \/ \E i \in DownloadJobs : JobMakesOutputPath(i)
    \/ \E i \in DownloadJobs : JobDownloadWrites(i)
    \/ \E i \in DownloadJobs : JobDownloadReturnsFalse(i)

\* C32 as stated: within one batch run no two jobs write a downloaded file
\* to the same local path, so every file a job wrote is still that job's.
C32_NoSharedPath ==
    /\ \A a, b \in 1..Len(written) :
           written[a].job # written[b].job => written[a].path # written[b].path
    /\ \A a \in 1..Len(written) : written[a] \in local_files

\* both jobs' responses cited "out.xlsx"; both wrote data/out/out.xlsx, and
\* the file there is the second job's
C32_Witness ==
    /\ batch_output_dir.configured
    /\ \A i \in DownloadJobs : job_cited[i].filename = <<"out.xlsx">> /\ job_pc[i] = "listed"
    /\ written = <<[path |-> <<"data", "out", "out.xlsx">>, job |-> 1],
                   [path |-> <<"data", "out", "out.xlsx">>, job |-> 2]>>
    /\ local_files = {[path |-> <<"data", "out", "out.xlsx">>, job |-> 2]}

\* ------------------------------------------------------- the specifications
\* one run of process_batch
InitBatch ==
    /\ BatchInit /\ SplitIdle /\ PushIdle /\ StageIdle /\ GatewayIdle /\ RequestIdle /\ LimiterIdle /\ OutputIdle
    /\ ColumnMapIdle
    /\ MergeIdle
    /\ DownloadsIdle
SpecBatch == InitBatch /\ [][BatchNext]_vars

\* one run of split_excel_into_chunks
InitSplit ==
    /\ SplitInit /\ BatchIdle /\ PushIdle /\ StageIdle /\ GatewayIdle /\ RequestIdle /\ LimiterIdle /\ OutputIdle
    /\ ColumnMapIdle
    /\ MergeIdle
    /\ DownloadsIdle
SpecSplit == InitSplit /\ [][SplitNext]_vars

\* one run of push_items_from_excel
InitPush ==
    /\ PushInit /\ BatchIdle /\ SplitIdle /\ StageIdle /\ GatewayIdle /\ RequestIdle /\ LimiterIdle /\ OutputIdle
    /\ ColumnMapIdle
    /\ MergeIdle
    /\ DownloadsIdle
SpecPush == InitPush /\ [][PushNext]_vars

\* one run of a stage script
InitStage ==
    /\ StageInit /\ BatchIdle /\ SplitIdle /\ PushIdle /\ GatewayIdle /\ RequestIdle /\ LimiterIdle /\ OutputIdle
    /\ ColumnMapIdle
    /\ MergeIdle
    /\ DownloadsIdle
SpecStage == InitStage /\ [][StageNext]_vars

\* one call of get_assistant_response
InitGateway ==
    /\ GatewayInit /\ BatchIdle /\ SplitIdle /\ PushIdle /\ StageIdle /\ RequestIdle /\ LimiterIdle /\ OutputIdle
    /\ ColumnMapIdle
    /\ MergeIdle
    /\ DownloadsIdle
SpecGateway == InitGateway /\ [][GatewayNext]_vars

\* the same call with the thread that makes it running on: a step that can be
\* taken (a return of the client, the end of time.sleep) is taken
SpecGatewayFair == SpecGateway /\ WF_vars(GatewayNext)

\* the request of one call, from the assistant configuration on
InitRequest ==
    /\ RequestInit /\ BatchIdle /\ SplitIdle /\ PushIdle /\ StageIdle /\ GatewayIdle
    /\ LimiterIdle /\ OutputIdle /\ ColumnMapIdle
    /\ MergeIdle
    /\ DownloadsIdle
SpecRequest == InitRequest /\ [][RequestNext]_vars

\* the limiter on one message
InitLimiter ==
    /\ LimiterInit /\ BatchIdle /\ SplitIdle /\ PushIdle /\ StageIdle /\ GatewayIdle
    /\ RequestIdle /\ OutputIdle /\ ColumnMapIdle
    /\ MergeIdle
    /\ DownloadsIdle
SpecLimiter == InitLimiter /\ [][LimiterNext]_vars

\* the download of one generated file
InitOutput ==
    /\ OutputInit /\ BatchIdle /\ SplitIdle /\ PushIdle /\ StageIdle /\ GatewayIdle
    /\ RequestIdle /\ LimiterIdle /\ ColumnMapIdle
    /\ MergeIdle
    /\ DownloadsIdle
SpecOutput == InitOutput /\ [][OutputNext]_vars

\* one call of _build_column_map
InitColumnMap ==
    /\ ColumnMapInit /\ BatchIdle /\ SplitIdle /\ PushIdle /\ StageIdle /\ GatewayIdle
    /\ RequestIdle /\ LimiterIdle /\ OutputIdle
    /\ MergeIdle
    /\ DownloadsIdle
SpecColumnMap == InitColumnMap /\ [][ColumnMapNext]_vars

\* runs of the split, one after the other, into one output directory
SpecSplitRuns == InitSplit /\ [][SplitRunsNext]_vars

\* one run of merge_folder
InitMerge ==
    /\ MergeInit
    /\ BatchIdle /\ SplitIdle /\ PushIdle /\ StageIdle /\ GatewayIdle
    /\ RequestIdle /\ LimiterIdle /\ OutputIdle /\ ColumnMapIdle
    /\ DownloadsIdle
SpecMerge == InitMerge /\ [][MergeNext]_vars

\* the downloads of the jobs of one batch run
InitDownloads ==
    /\ DownloadsInit
    /\ BatchIdle /\ SplitIdle /\ PushIdle /\ StageIdle /\ GatewayIdle
    /\ RequestIdle /\ LimiterIdle /\ OutputIdle /\ ColumnMapIdle /\ MergeIdle
SpecDownloads == InitDownloads /\ [][DownloadsNext]_vars

====
